---- MODULE Spec2Model ----
(***************************************************************************)
(* PlugiPy: the service executors (Local, Threaded, Process, Remote), the  *)
(* futures they return, and the remote task protocol of RPCService         *)
(* (single worker, result buffer drained in batches by get_results).       *)
(*                                                                         *)
(* Python values are modelled by name: "None", "Zero", "False", "Empty"    *)
(* are the falsy values, "One" is the truthy one.  A raised               *)
(* exception is modelled by its class name.                                *)
(***************************************************************************)
EXTENDS Integers, Sequences, FiniteSets, TLC

VARIABLES
    variant,          \* which ServiceExecutor class was constructed
    input,            \* the argument the session's echo calls are made with
    pc,               \* position of every client thread
    call,             \* the operation a client thread is executing (its locals)
    ret,              \* how the last finished operation of a thread ended
    futures,          \* the Future objects created so far, by handle
    next_id,          \* RemoteServiceExecutor._next_id
    future_buffer,    \* RemoteServiceExecutor._future_buffer: id -> future
    lock,             \* RemoteServiceExecutor._future_buffer_lock: its holder
    queue,            \* work queue of the single-worker pool (self._executor)
    running,          \* the work item the worker executes, <<>> when idle
    results_buffer,   \* RPCService._results_buffer, in insertion order
    batch,            \* reply of get_results on its way to the polling thread
    returned,         \* history: every TaskResult handed out by get_results
    placed,           \* history: every TaskResult put into the buffer
    submits,          \* history: number of submit_task calls begun
    submitted,        \* history: the method each future was submitted for
    received,         \* history: the futures of the tasks in the order the
                      \* server received their submit_func requests
    dir_file_getters, \* RPCService.dir_file_getters: key -> callback
    sessions,         \* the connections made to the server, in order
    resources,        \* the FilesystemResource objects present on the server
    scratch,          \* the objects in the server's ./tmp/instance_id
    fs_ret,           \* how the last filesystem operation ended
    service,          \* the executor's service instance: its call counter
    work,             \* the pool's work items for the counting method
    log,              \* history: what the counting calls returned, in order
    calls,            \* history: number of counting calls made
    props,            \* the plugin's properties: its python_module_file
    ctor_raises,      \* whether the service class's constructor raises
    stage,            \* how far the construction of the executor has come
    build_ret,        \* how the last construction step ended
    rpc,              \* the session's RPCService: has _plugin_path, has _service
    pipeline_steps,   \* PluginFinder._pipeline_steps
    error_string,     \* PluginFinder._error_string
    finder_ret,       \* the last find_all / find_by_name call and its result
    step_calls,       \* history: per entry, the indexes of the steps the last
                      \* find call invoked on it, in the order of the calls
    parameters,       \* the Parameter objects by name (ConfigHandle._parameters)
    on_change,        \* whether the ConfigHandle has a change callback
    param_ret,        \* the last parameter operation and what it returned
    notified,         \* the payloads the last operation gave the callback
    enc_args,         \* the whitelist and ignore patterns of the last encode
    archive           \* the archive paths the last encode_directory wrote

\* The filesystem side of the server.
fsvars == <<dir_file_getters, sessions, resources, scratch, fs_ret>>

\* The stateful service and the calls of its counting method.
svcvars == <<service, work, log, calls>>

\* The construction of the ServiceDescription and of the executor.
buildvars == <<props, ctor_raises, stage, build_ret, rpc>>

\* The PluginFinder.
findervars == <<pipeline_steps, error_string, finder_ret, step_calls>>

\* The directory encoder.
encvars == <<enc_args, archive>>

\* The parameters and the ConfigHandle.
paramvars == <<parameters, on_change, param_ret, notified>>

\* The objects of the library that live outside the executors.
libvars == <<findervars, paramvars, encvars>>

vars == <<variant, input, pc, call, ret, futures, next_id, future_buffer, lock,
          queue, running, results_buffer, batch, returned, placed, submits,
          submitted, received, fsvars, svcvars, buildvars, libvars>>

\* ------------------------------------------------------------------ bounds

\* Most tasks submitted in one session.
MaxTasks == 2

\* Most connections made to the server.
MaxSessions == 2

\* Most access() calls on one FilesystemResource.
MaxAccess == 2

\* Most calls of the service's counting method on one executor.
MaxCalls == 4

\* Most steps added to the pipeline of one PluginFinder.
MaxSteps == 2

\* Largest magnitude of the numbers given to set_value.
MaxMagnitude == 2

\* Most paths in the whitelist of one encode_directory call.
MaxWhitelist == 2

Threads == {"t1", "t2"}

Variants == {"Local", "Threaded", "Process", "Remote"}

Falsy  == {"None", "Zero", "False", "Empty"}
Truthy == {"One"}
Values == Falsy \cup Truthy

\* The service of the model: echo returns its argument, fail raises.
Methods == {"echo", "fail"}

NoneVal == "None"
NoThread == "nobody"

\* ------------------------------------------------- values and conversions

\* pickle.dumps / pickle.loads: an opaque blob that carries the object.
Pickle(v) == <<"pickle", v>>

Unpickle(p) == p[2]

\* Python truthiness of a value (bool(v)).
IsTruthy(v) == v \in Truthy

Returned(v) == [tag |-> "return", val |-> v, fut |-> 0]

Raised(e) == [tag |-> "raise", val |-> e, fut |-> 0]

GaveFuture(h) == [tag |-> "future", val |-> NoneVal, fut |-> h]

NoRet == [tag |-> "none", val |-> NoneVal, fut |-> 0]

NoCall == [kind |-> "none", fname |-> "echo", arg |-> NoneVal, fut |-> 0,
           timed |-> FALSE, elapsed |-> FALSE, id |-> 0]

\* A method that ends the interpreter: it raises SystemExit, which is a
\* BaseException but not an Exception.
AllMethods == Methods \cup {"abort"}

\* "except Exception as e" in call_service_func_wrapper: the exception
\* classes that clause catches.
IsException(e) == e # "SystemExit"

\* getattr(self._service, fname)(*args): what the service method does.
call_service_func(fname, arg) ==
    IF fname = "echo" THEN Returned(arg)
    ELSE IF fname = "fail" THEN Raised("Err")
    ELSE Raised("SystemExit")

\* Whether call_service_func_wrapper returns an RPCServiceResult for this
\* call; otherwise the exception leaves the wrapper.
WrapperReturns(fname, arg) ==
    LET o == call_service_func(fname, arg)
    IN  o.tag = "return" \/ IsException(o.val)

\* A wrapper that leaves the caught exception in the value slot as well.
call_service_func_wrapper_both(id, fname, arg, h) ==
    LET o == call_service_func(fname, arg)
    IN  IF o.tag = "return"
        THEN [id |-> id, result |-> o.val, exception |-> NoneVal, h |-> h]
        ELSE [id |-> id, result |-> o.val, exception |-> o.val, h |-> h]

\* RPCService.call_service_func_wrapper: the outcome as an RPCServiceResult.
call_service_func_wrapper(id, fname, arg, h) ==
    LET o == call_service_func(fname, arg)
    IN  IF o.tag = "return"
        THEN [id |-> id, result |-> o.val, exception |-> NoneVal, h |-> h]
        ELSE [id |-> id, result |-> NoneVal, exception |-> o.val, h |-> h]

Ids(buf) == {buf[i].id : i \in DOMAIN buf}

\* self._results_buffer[result.id] = result on an insertion-ordered dict.
done_callback(buf, res) ==
    IF res.id \in Ids(buf)
    THEN [i \in DOMAIN buf |-> IF buf[i].id = res.id THEN res ELSE buf[i]]
    ELSE Append(buf, res)

\* get_results: the condition of its wait loop, and what the drain takes
\* and leaves.
CanDrain(buf, id) == id \in Ids(buf)

\* A drain that hands out the requested result alone.
DrainBatchRequestedOnly(buf, id) == SelectSeq(buf, LAMBDA r : r.id = id)

DrainBatch(buf, id) == buf

DrainRest(buf, id) == <<>>

\* A future that is constructed as done.
NewFutureDone(cls, id) ==
    [cls |-> cls, id |-> id, result |-> NoneVal, exception |-> NoneVal,
     done |-> TRUE, handed |-> FALSE]

\* RemoteFuture.__init__ / ResultFuture.__init__ / FutureWrapper.__init__
NewFuture(cls, id) ==
    [cls |-> cls, id |-> id, result |-> NoneVal, exception |-> NoneVal,
     done |-> FALSE, handed |-> FALSE]

\* RemoteFuture.set_result
set_result(f, result, exception) ==
    [f EXCEPT !.result = result, !.exception = exception, !.done = TRUE]

\* The tail of RemoteFuture.result: "if self._result: return self._result
\* else: raise self._exception"; raising None is a TypeError.
RemoteResult(f) ==
    IF IsTruthy(f.result) THEN Returned(f.result)
    ELSE IF f.exception = NoneVal THEN Raised("TypeError")
    ELSE Raised(f.exception)

\* The tail of RemoteFuture.exception.
RemoteException(f) == Returned(f.exception)

\* concurrent.futures.Future.result / .exception of a finished future, as
\* FutureWrapper forwards them.
WrapperResult(f) ==
    IF f.exception = NoneVal THEN Returned(f.result) ELSE Raised(f.exception)

WrapperException(f) == Returned(f.exception)

\* How result() or exception() of a done future ends, by Future class.
Outcome(f, kind) ==
    IF f.cls = "ResultFuture"
    THEN (IF kind = "result" THEN Returned(f.result) ELSE Returned(NoneVal))
    ELSE IF f.cls = "FutureWrapper"
    THEN (IF kind = "result" THEN WrapperResult(f) ELSE WrapperException(f))
    ELSE (IF kind = "result" THEN RemoteResult(f) ELSE RemoteException(f))

MapPut(m, k, v) == [i \in DOMAIN m \cup {k} |-> IF i = k THEN v ELSE m[i]]

MapPop(m, k) == [i \in DOMAIN m \ {k} |-> m[i]]

\* The loop of RemoteServiceExecutor._get_result over results.items():
\* pop the future of every id and resolve it; pop of an id that is not in
\* the map raises KeyError and ends the loop.
RECURSIVE DistributeLoop(_, _, _)
DistributeLoop(b, fb, fs) ==
    IF b = <<>> THEN [fb |-> fb, fs |-> fs, err |-> FALSE]
    ELSE LET r == Head(b)
         IN  IF r.id \notin DOMAIN fb
             THEN [fb |-> fb, fs |-> fs, err |-> TRUE]
             ELSE DistributeLoop(Tail(b), MapPop(fb, r.id),
                     [fs EXCEPT ![fb[r.id]] = set_result(@, r.result, r.exception)])

\* ------------------------------------------------------------------ Init

\* ---------------------------------------------------------- PluginFinder

\* os.listdir of the search directory: plugin_a is a directory with the
\* subdirectories subdirA and subdirB, plugin_b is a file, plugin_c is a
\* directory with a README.md.
Listing == {"plugin_a", "plugin_b", "plugin_c"}

\* (os.path.curdir, os.path.pardir)
DotNames == {".", ".."}

\* The names find_by_name is called with.
Names == Listing \cup DotNames \cup {"not-existing-plugin"}

\* A pipeline step: its name (get_pipeline_step_name), the entries it lets
\* through, whether it returns a bare bool or a (bool, str) pair, and the
\* description of the pair.
PStep(name, passes, shape, desc) ==
    [name |-> name, passes |-> passes, shape |-> shape, desc |-> desc]

directory_filter ==
    PStep("directory-filter", {"plugin_a", "plugin_c"}, "pair", "is not a directory")

file_filter == PStep("file-filter", {"plugin_b"}, "pair", "is not a file")

has_file == PStep("contains-file-filter", {"plugin_c"}, "pair", "is not existing")

\* A lambda that returns a bare bool: lambda pinfo: pinfo.name != "plugin_c"
lambda_step == PStep("<lambda>", {"plugin_a", "plugin_b"}, "bool", "")

\* A step whose pair has an empty description.
quiet_step == PStep("quiet", {"plugin_a"}, "pair", "")

Steps == {directory_filter, file_filter, has_file, lambda_step, quiet_step}

\* The extra_steps a call is made with: none or one step.
Extras == {<<>>} \cup {<<st>> : st \in Steps}

\* The empty error string, and the three kinds of message.
NoError == [kind |-> "", plugin |-> "", index |-> 0, step |-> "", desc |-> ""]

DotsError(name) == [NoError EXCEPT !.kind = "dots", !.plugin = name]

NotFoundError(name) == [NoError EXCEPT !.kind = "notfound", !.plugin = name]

\* A message that counts the steps from 1.
StepErrorFromOne(name, i, st, desc) ==
    [kind |-> "step", plugin |-> name, index |-> i + 1, step |-> st.name,
     desc |-> desc]

StepError(name, i, st, desc) ==
    [kind |-> "step", plugin |-> name, index |-> i, step |-> st.name,
     desc |-> desc]

\* A chain that leaves out the extra steps.
chainedFirst(own, extra) == own

\* _chained([self._pipeline_steps, extra_steps])
chained(own, extra) == own \o extra

\* step(pinfo), taken apart as the loop does: a bool has no description.
StepResult(st, name) ==
    IF st.shape = "bool"
    THEN [success |-> name \in st.passes, desc |-> ""]
    ELSE [success |-> name \in st.passes, desc |-> st.desc]

\* The loop of _find_by_name_implementation from step i on (i counts from
\* 1, enumerate from 0): the first failing step ends it with None and the
\* message of that step.
RECURSIVE find_by_name_implementation(_, _, _)
find_by_name_implementation(name, chain, i) ==
    IF i > Len(chain) THEN [info |-> name, err |-> NoError, calls |-> <<>>]
    ELSE LET r == StepResult(chain[i], name)
         IN  IF r.success
             THEN [find_by_name_implementation(name, chain, i + 1)
                      EXCEPT !.calls = <<i - 1>> \o @]
             ELSE [info |-> NoneVal, calls |-> <<i - 1>>,
                   err |-> StepError(name, i - 1, chain[i], r.desc)]

\* What find_all yields.
find_all(own, extra) ==
    {name \in Listing \ DotNames :
        find_by_name_implementation(name, chained(own, extra), 1).info # NoneVal}

\* The step calls find_all makes on the entries it goes through.
find_all_calls(own, extra) ==
    [name \in Listing \ DotNames |->
        find_by_name_implementation(name, chained(own, extra), 1).calls]

\* A find_by_name that keeps the error string of the call before.
KeepErrorString(es) == es

\* find_by_name, first statement: self._error_string = ""
ResetErrorString(es) == NoError

\* find_by_name: the PluginInfo (by name) or None, and the error string.
find_by_name(es, own, name, extra) ==
    LET es0 == ResetErrorString(es)
    IN  IF name \in DotNames
        THEN [info |-> NoneVal, err |-> DotsError(name), calls |-> <<>>]
        ELSE IF name \notin Listing
        THEN [info |-> NoneVal, err |-> NotFoundError(name), calls |-> <<>>]
        ELSE LET r == find_by_name_implementation(name, chained(own, extra), 1)
             IN  [info |-> r.info, err |-> IF r.info = NoneVal THEN r.err ELSE es0,
                  calls |-> MapPut(<<>>, name, r.calls)]

NoFind == [op |-> "none", name |-> "", extra |-> <<>>, all |-> {}, one |-> NoneVal]

\* ------------------------------------------------------------ parameters

\* A Python value given to a parameter: its type, its number (int, float,
\* bool) and its text (str).
PyVal(t, n, txt) == [t |-> t, n |-> n, s |-> txt]

PyNone == PyVal("none", 0, "")
IntV(k) == PyVal("int", k, "")
FloatV(k) == PyVal("float", k, "")
StrV(txt) == PyVal("str", 0, txt)
PyTrue == PyVal("bool", 1, "")
IndexError == PyVal("error", 0, "IndexError")

\* bool(v): None, 0, 0.0, False and "" are falsy.
Truth(v) ==
    IF v.t = "none" THEN FALSE
    ELSE IF v.t = "str" THEN v.s # ""
    ELSE v.n # 0

\* isinstance(v, int) / isinstance(v, float) / isinstance(v, str); a bool is
\* an int.
IsInstance(v, cls) ==
    IF cls = "int" THEN v.t \in {"int", "bool"} ELSE v.t = cls

\* The numbers of the model, the bounds a parameter is configured with, and
\* the values set_value is called with.
Numbers == (0 - MaxMagnitude) .. MaxMagnitude
BoundNumbers == {k \in Numbers : k \in (0 - 1) .. 1}
IntVals == {IntV(k) : k \in Numbers}
FloatVals == {FloatV(k) : k \in Numbers}
SetArgs == IntVals \cup FloatVals \cup
           {PyNone, PyTrue, StrV("a"), StrV("b"), StrV("zzz"), StrV("")}

\* A Parameter object: IntParameter and FloatParameter use min, max and
\* value, OptionsParameter uses options and choice.
NumParam(cls, min, max, value) ==
    [cls |-> cls, min |-> min, max |-> max, value |-> value,
     options |-> <<>>, choice |-> 0]

OptParam(options, choice) ==
    [cls |-> "options", min |-> PyNone, max |-> PyNone, value |-> PyNone,
     options |-> options, choice |-> choice]

\* IntParameter.set_value / FloatParameter.set_value: the parameter
\* afterwards and the returned flag.
num_set_value(p, v) ==
    IF ~IsInstance(v, p.cls) THEN [p |-> p, ret |-> FALSE]
    ELSE IF Truth(p.min) /\ v.n < p.min.n THEN [p |-> p, ret |-> FALSE]
    ELSE IF Truth(p.max) /\ v.n > p.max.n THEN [p |-> p, ret |-> FALSE]
    ELSE [p |-> [p EXCEPT !.value = v], ret |-> TRUE]

\* An index check that lets the length itself through.
InRangeInclusive(i, n) == 0 <= i /\ i <= n

\* OptionsParameter.set_value: 0 <= index < len(self._options)
InRange(i, n) == 0 <= i /\ i < n

\* self._options.index(value), counted from 0.
IndexOf(options, txt) ==
    (CHOOSE i \in DOMAIN options :
        options[i] = txt /\ \A j \in DOMAIN options : options[j] = txt => i <= j) - 1

\* OptionsParameter.set_value
opt_set_value(p, v) ==
    IF v.t \notin {"str", "int", "bool"} THEN [p |-> p, ret |-> FALSE]
    ELSE IF v.t = "str"
    THEN IF \A i \in DOMAIN p.options : p.options[i] # v.s
         THEN [p |-> p, ret |-> FALSE]
         ELSE [p |-> [p EXCEPT !.choice = IndexOf(p.options, v.s)], ret |-> TRUE]
    ELSE IF ~InRange(v.n, Len(p.options)) THEN [p |-> p, ret |-> FALSE]
    ELSE [p |-> [p EXCEPT !.choice = v.n], ret |-> TRUE]

\* Parameter.set_value of the object's class.
set_value(p, v) ==
    IF p.cls = "options" THEN opt_set_value(p, v) ELSE num_set_value(p, v)

\* Parameter.get_value; a list index below 0 counts from the end, one
\* outside the list is an IndexError.
get_value(p) ==
    IF p.cls # "options" THEN p.value
    ELSE LET n == Len(p.options)
         IN  IF 0 <= p.choice /\ p.choice < n THEN StrV(p.options[p.choice + 1])
             ELSE IF 0 - n <= p.choice /\ p.choice < 0
             THEN StrV(p.options[n + p.choice + 1])
             ELSE IndexError

\* IntParameter.__init__ / FloatParameter.__init__: the object, or failed
\* with ParameterConfigError.
NumCtor(cls, default, min, max) ==
    IF Truth(min) /\ ~IsInstance(min, cls) THEN [ok |-> FALSE, p |-> NumParam(cls, min, max, PyNone)]
    ELSE IF Truth(max) /\ ~IsInstance(max, cls) THEN [ok |-> FALSE, p |-> NumParam(cls, min, max, PyNone)]
    ELSE LET zero == IF cls = "int" THEN IntV(0) ELSE FloatV(0)
             r == num_set_value(NumParam(cls, min, max, zero), default)
         IN  [ok |-> r.ret, p |-> r.p]

\* OptionsParameter.__init__ for a list of strings.
OptCtor(options, default) ==
    IF Len(options) = 0 THEN [ok |-> FALSE, p |-> OptParam(options, 0)]
    ELSE IF \E i, j \in DOMAIN options : i # j /\ options[i] = options[j]
    THEN [ok |-> FALSE, p |-> OptParam(options, 0)]
    ELSE LET r == opt_set_value(OptParam(options, 0), default)
         IN  IF Truth(default) /\ ~r.ret
             THEN [ok |-> FALSE, p |-> OptParam(options, 0)]
             ELSE IF Truth(default) THEN [ok |-> TRUE, p |-> r.p]
             ELSE [ok |-> TRUE, p |-> OptParam(options, 0)]

NoParamRet == [op |-> "none", args |-> <<>>, flags |-> <<>>, raised |-> ""]

\* The executor, the server and the services before any operation.
Fresh ==
    /\ variant \in Variants
    /\ input \in Values
    /\ pc = [t \in Threads |-> "idle"]
    /\ call = [t \in Threads |-> NoCall]
    /\ ret = [t \in Threads |-> NoRet]
    /\ futures = <<>>
    /\ next_id = 0
    /\ future_buffer = <<>>
    /\ lock = NoThread
    /\ queue = <<>>
    /\ running = <<>>
    /\ results_buffer = <<>>
    /\ batch = [t \in Threads |-> <<>>]
    /\ returned = <<>>
    /\ placed = {}
    /\ submits = 0
    /\ submitted = <<>>
    /\ received = <<>>
    /\ dir_file_getters = <<>>
    /\ sessions = <<>>
    /\ resources = <<>>
    /\ scratch = {}
    /\ fs_ret = NoRet
    /\ service = 0
    /\ work = <<>>
    /\ log = <<>>
    /\ calls = 0
    /\ pipeline_steps = <<>>
    /\ error_string = NoError
    /\ finder_ret = NoFind
    /\ step_calls = <<>>
    /\ parameters = <<>>
    /\ on_change = FALSE
    /\ param_ret = NoParamRet
    /\ notified = <<>>
    /\ enc_args = [op |-> "none", whitelist |-> {}, ignore |-> {}]
    /\ archive = {}

\* The executor has been constructed: the plugin names its module file and
\* the service constructor has returned.
Constructed ==
    /\ props = "str"
    /\ ctor_raises = FALSE
    /\ stage = "built"
    /\ build_ret = NoRet
    /\ rpc = [plugin_path |-> TRUE, service |-> TRUE]

Init == Fresh /\ Constructed

\* --------------------------------------------------------- run_task

Pooled == {"Threaded", "Process"}

\* run_task up to the point where the service method has been entered.
\* Local/Threaded/Process: on the calling thread.  Remote: the client has
\* sent call_func and the server is inside call_service_func.
RunBegin(t, fname, arg) ==
    /\ stage = "built"
    /\ pc[t] = "idle"
    /\ pc' = [pc EXCEPT ![t] = "in_run"]
    /\ call' = [call EXCEPT ![t] = [NoCall EXCEPT !.kind = "run",
                                       !.fname = fname, !.arg = arg]]
    /\ ret' = [ret EXCEPT ![t] = NoRet]
    /\ UNCHANGED <<libvars, fsvars, svcvars, buildvars, received, variant, input, submitted, futures, next_id, future_buffer, lock, queue,
                   running, results_buffer, batch, returned, placed, submits>>

\* A run_task that hands the method's exception back as its return value.
RunOutcomeAsValue(v, fname, arg) ==
    LET o == call_service_func(fname, arg)
    IN  Returned(o.val)

\* What run_task hands to its caller once the service method has ended.
\* Remote: call_func returns pickle.dumps(result) and the client loads it;
\* an exception of the method travels back through the call.
RunOutcome(v, fname, arg) ==
    LET o == call_service_func(fname, arg)
    IN  IF v = "Remote" /\ o.tag = "return"
        THEN Returned(Unpickle(Pickle(o.val)))
        ELSE o

RunEnd(t) ==
    /\ pc[t] = "in_run"
    /\ pc' = [pc EXCEPT ![t] = "idle"]
    /\ ret' = [ret EXCEPT ![t] = RunOutcome(variant, call[t].fname, call[t].arg)]
    /\ UNCHANGED <<libvars, fsvars, svcvars, buildvars, received, variant, input, submitted, call, futures, next_id, future_buffer, lock, queue,
                   running, results_buffer, batch, returned, placed, submits>>

\* --------------------------------------------------------- submit_task

SubmitCall(fname, arg) ==
    [NoCall EXCEPT !.kind = "submit", !.fname = fname, !.arg = arg]

\* LocalServiceExecutor.submit_task evaluates self.run_task(...) first: the
\* service method is entered on the calling thread.
LocalSubmitBegin(t, fname, arg) ==
    /\ stage = "built"
    /\ variant = "Local"
    /\ pc[t] = "idle"
    /\ submits < MaxTasks
    /\ submits' = submits + 1
    /\ pc' = [pc EXCEPT ![t] = "in_submit"]
    /\ call' = [call EXCEPT ![t] = SubmitCall(fname, arg)]
    /\ ret' = [ret EXCEPT ![t] = NoRet]
    /\ UNCHANGED <<libvars, fsvars, svcvars, buildvars, received, variant, input, submitted, futures, next_id, future_buffer, lock, queue,
                   running, results_buffer, batch, returned, placed>>

\* ... and wraps what it returned in a ResultFuture; an exception of the
\* method leaves submit_task before any future exists.
LocalSubmitEnd(t) ==
    /\ pc[t] = "in_submit"
    /\ pc' = [pc EXCEPT ![t] = "idle"]
    /\ LET o == call_service_func(call[t].fname, call[t].arg)
           h == Len(futures) + 1
       IN  IF o.tag = "raise"
           THEN /\ ret' = [ret EXCEPT ![t] = o]
                /\ UNCHANGED <<futures, call>>
                /\ UNCHANGED submitted
           ELSE /\ futures' = Append(futures,
                      [NewFuture("ResultFuture", 0) EXCEPT
                          !.result = o.val, !.done = TRUE, !.handed = TRUE])
                /\ submitted' = Append(submitted, call[t].fname)
                /\ call' = [call EXCEPT ![t].fut = h]
                /\ ret' = [ret EXCEPT ![t] = GaveFuture(h)]
    /\ UNCHANGED <<libvars, fsvars, svcvars, buildvars, received, variant, input, next_id, future_buffer, lock, queue, running,
                   results_buffer, batch, returned, placed, submits>>

Task(id, fname, arg, h) == [id |-> id, fname |-> fname, arg |-> arg, h |-> h]

\* What "running" holds once the pool's only worker thread has ended: no
\* work item is taken from the queue any more.
WorkerEnded == <<Task(0, "ended", NoneVal, 0)>>

\* Threaded/Process submit_task: self._executor.submit(f, ...) queues the
\* work item and returns its concurrent future, wrapped in a FutureWrapper.
PoolSubmit(t, fname, arg) ==
    /\ stage = "built"
    /\ variant \in Pooled
    /\ pc[t] = "idle"
    /\ submits < MaxTasks
    /\ submits' = submits + 1
    /\ LET h == Len(futures) + 1
       IN  /\ futures' = Append(futures,
                 [NewFuture("FutureWrapper", 0) EXCEPT !.handed = TRUE])
           /\ queue' = Append(queue, Task(0, fname, arg, h))
           /\ submitted' = Append(submitted, fname)
           /\ call' = [call EXCEPT ![t] = [SubmitCall(fname, arg) EXCEPT !.fut = h]]
           /\ ret' = [ret EXCEPT ![t] = GaveFuture(h)]
    /\ UNCHANGED <<libvars, fsvars, svcvars, buildvars, received, variant, input, pc, next_id, future_buffer, lock, running,
                   results_buffer, batch, returned, placed>>

\* RemoteServiceExecutor._get_next_id, first statement: id = self._next_id
RemoteReadId(t, fname, arg) ==
    /\ stage = "built"
    /\ variant = "Remote"
    /\ pc[t] = "idle"
    /\ submits < MaxTasks
    /\ submits' = submits + 1
    /\ pc' = [pc EXCEPT ![t] = "got_id"]
    /\ call' = [call EXCEPT ![t] = [SubmitCall(fname, arg) EXCEPT !.id = next_id]]
    /\ ret' = [ret EXCEPT ![t] = NoRet]
    /\ UNCHANGED <<libvars, fsvars, svcvars, buildvars, received, variant, input, submitted, futures, next_id, future_buffer, lock, queue,
                   running, results_buffer, batch, returned, placed>>

\* RemoteServiceExecutor._get_next_id, second statement: self._next_id += 1.
\* Nothing orders the load and the store of the increment against other
\* threads: the stored value is one more than the counter as it is now, or
\* as it was at any point since this thread read its id.
RemoteBumpId(t) ==
    /\ pc[t] = "got_id"
    /\ \E v \in {next_id} \cup (call[t].id .. next_id) : next_id' = v + 1
    /\ pc' = [pc EXCEPT ![t] = "store"]
    /\ UNCHANGED <<libvars, fsvars, svcvars, buildvars, received, variant, input, submitted, call, ret, futures, future_buffer, lock, queue,
                   running, results_buffer, batch, returned, placed, submits>>

\* submit_task: future = RemoteFuture(id, ...); with the lock held,
\* self._future_buffer[id] = future.
RemoteStore(t) ==
    /\ pc[t] = "store"
    /\ lock = NoThread
    /\ LET h == Len(futures) + 1
       IN  /\ futures' = Append(futures, NewFuture("RemoteFuture", call[t].id))
           /\ future_buffer' = MapPut(future_buffer, call[t].id, h)
           /\ submitted' = Append(submitted, call[t].fname)
           /\ call' = [call EXCEPT ![t].fut = h]
    /\ pc' = [pc EXCEPT ![t] = "send"]
    /\ UNCHANGED <<libvars, fsvars, svcvars, buildvars, received, variant, input, ret, next_id, lock, queue, running,
                   results_buffer, batch, returned, placed, submits>>

\* submit_task: self._remote_service_executor.submit_func(id, fname, args),
\* which decodes the arguments and queues call_service_func_wrapper on the
\* server's single-worker pool; then submit_task returns the future.
RemoteSend(t) ==
    /\ pc[t] = "send"
    /\ queue' = Append(queue, Task(call[t].id, call[t].fname,
                                   Unpickle(Pickle(call[t].arg)), call[t].fut))
    /\ futures' = [futures EXCEPT ![call[t].fut].handed = TRUE]
    /\ ret' = [ret EXCEPT ![t] = GaveFuture(call[t].fut)]
    /\ received' = Append(received, call[t].fut)
    /\ pc' = [pc EXCEPT ![t] = "idle"]
    /\ UNCHANGED <<libvars, fsvars, svcvars, buildvars, variant, input, submitted, call, next_id, future_buffer, lock, running,
                   results_buffer, batch, returned, placed, submits>>

\* submit_task when the submit_func request raises (the connection is
\* closed, or the server cannot decode the arguments): the exception leaves
\* submit_task, nothing was queued, and no statement follows the request
\* that would take the future out of the future buffer again.
RemoteSendFails(t) ==
    /\ pc[t] = "send"
    /\ ret' = [ret EXCEPT ![t] = Raised("EOFError")]
    /\ pc' = [pc EXCEPT ![t] = "idle"]
    /\ UNCHANGED <<libvars, fsvars, svcvars, buildvars, received, variant, input, submitted, call, futures, next_id, future_buffer, lock, queue,
                   running, results_buffer, batch, returned, placed, submits>>

\* --------------------------------------------------------- the worker

\* A worker that takes the newest work item.
WorkerStartNewest ==
    /\ running = <<>>
    /\ queue # <<>>
    /\ running' = <<queue[Len(queue)]>>
    /\ queue' = SubSeq(queue, 1, Len(queue) - 1)
    /\ UNCHANGED <<libvars, fsvars, svcvars, buildvars, received, variant, input, submitted, pc, call, ret, futures, next_id, future_buffer,
                   lock, results_buffer, batch, returned, placed, submits>>

\* The pool's worker takes the oldest work item and enters the service
\* method.
WorkerStart ==
    /\ running = <<>>
    /\ queue # <<>>
    /\ running' = <<Head(queue)>>
    /\ queue' = Tail(queue)
    /\ UNCHANGED <<libvars, fsvars, svcvars, buildvars, received, variant, input, submitted, pc, call, ret, futures, next_id, future_buffer,
                   lock, results_buffer, batch, returned, placed, submits>>

\* concurrent.futures: the finished work item sets the result or the
\* exception of its future (Process: carried back pickled).
PoolFinish(f, task) ==
    LET o == call_service_func(task.fname, task.arg)
    IN  IF o.tag = "return"
        THEN set_result(f, Unpickle(Pickle(o.val)), NoneVal)
        ELSE set_result(f, NoneVal, o.val)

\* The service method ends.  Threaded/Process: the concurrent future is
\* resolved.  Remote: call_service_func_wrapper returns the RPCServiceResult
\* and done_callback stores it under the condition's lock and notifies.
\* An exception the wrapper does not catch becomes the exception of the
\* pool's future, "result = future.result()" in done_callback raises it
\* again before the buffer is touched, and, not being an Exception, it
\* passes through the pool's callback handling and ends the worker thread.
WorkerFinish ==
    /\ running # <<>>
    /\ running # WorkerEnded
    /\ LET task == running[1]
       IN  IF variant = "Remote"
           THEN IF WrapperReturns(task.fname, task.arg)
                THEN LET res == call_service_func_wrapper(task.id, task.fname,
                                                          task.arg, task.h)
                     IN  /\ results_buffer' = done_callback(results_buffer, res)
                         /\ placed' = placed \cup {task.h}
                         /\ running' = <<>>
                         /\ UNCHANGED futures
                ELSE /\ running' = WorkerEnded
                     /\ UNCHANGED <<results_buffer, placed, futures>>
           ELSE /\ futures' = [futures EXCEPT ![task.h] = PoolFinish(@, task)]
                /\ running' = <<>>
                /\ UNCHANGED <<results_buffer, placed>>
    /\ UNCHANGED <<libvars, fsvars, svcvars, buildvars, received, variant, input, submitted, pc, call, ret, next_id, future_buffer, lock,
                   queue, batch, returned, submits>>

\* ------------------------------------------- Future.result / .exception

Waiting == {"pool_wait", "want_lock", "polling"}

\* result(timeout) / exception() up to its first wait.  A ResultFuture and
\* a done future answer at once; FutureWrapper waits on the concurrent
\* future; RemoteFuture calls self._wait_for_result(self._id), that is
\* RemoteServiceExecutor._get_result, which first takes the lock.
ResultBegin(t, h, kind, timed) ==
    /\ pc[t] = "idle"
    /\ h \in DOMAIN futures
    /\ futures[h].handed
    /\ call' = [call EXCEPT ![t] = [NoCall EXCEPT !.kind = kind, !.fut = h,
                                       !.id = futures[h].id, !.timed = timed]]
    /\ IF futures[h].cls = "ResultFuture" \/ futures[h].done
       THEN /\ ret' = [ret EXCEPT ![t] = Outcome(futures[h], kind)]
            /\ UNCHANGED pc
       ELSE /\ ret' = [ret EXCEPT ![t] = NoRet]
            /\ pc' = [pc EXCEPT ![t] =
                        IF futures[h].cls = "FutureWrapper" THEN "pool_wait"
                        ELSE "want_lock"]
    /\ UNCHANGED <<libvars, fsvars, svcvars, buildvars, received, variant, input, submitted, futures, next_id, future_buffer, lock, queue,
                   running, results_buffer, batch, returned, placed, submits>>

\* FutureWrapper: the concurrent future has finished, the wait ends.
PoolWake(t) ==
    /\ pc[t] = "pool_wait"
    /\ futures[call[t].fut].done
    /\ ret' = [ret EXCEPT ![t] = Outcome(futures[call[t].fut], call[t].kind)]
    /\ pc' = [pc EXCEPT ![t] = "idle"]
    /\ UNCHANGED <<libvars, fsvars, svcvars, buildvars, received, variant, input, submitted, call, futures, next_id, future_buffer, lock, queue,
                   running, results_buffer, batch, returned, placed, submits>>

\* A timeout that also withdraws the future's work item from the queue.
TimeoutElapsesCancels(t) ==
    /\ pc[t] = "pool_wait"
    /\ call[t].timed
    /\ ~call[t].elapsed
    /\ ~futures[call[t].fut].done
    /\ call' = [call EXCEPT ![t].elapsed = TRUE]
    /\ ret' = [ret EXCEPT ![t] = Raised("TimeoutError")]
    /\ pc' = [pc EXCEPT ![t] = "idle"]
    /\ queue' = SelectSeq(queue, LAMBDA w : w.h # call[t].fut)
    /\ UNCHANGED <<libvars, fsvars, svcvars, buildvars, received, variant, input, submitted, futures, next_id, future_buffer,
                   lock, running, results_buffer, batch, returned, placed,
                   submits>>

\* The timeout given to result(timeout) elapses while the call still waits.
\* FutureWrapper passes the timeout to the concurrent future, whose wait
\* ends with TimeoutError.  RemoteFuture.result never reads its timeout
\* parameter: the call goes on waiting.
TimeoutElapses(t) ==
    /\ pc[t] \in Waiting
    /\ call[t].timed
    /\ ~call[t].elapsed
    /\ call' = [call EXCEPT ![t].elapsed = TRUE]
    /\ IF pc[t] = "pool_wait"
       THEN /\ ~futures[call[t].fut].done
            /\ ret' = [ret EXCEPT ![t] = Raised("TimeoutError")]
            /\ pc' = [pc EXCEPT ![t] = "idle"]
       ELSE UNCHANGED <<ret, pc>>
    /\ UNCHANGED <<libvars, fsvars, svcvars, buildvars, received, variant, input, submitted, futures, next_id, future_buffer, lock, queue,
                   running, results_buffer, batch, returned, placed, submits>>

\* _get_result: "with self._future_buffer_lock:" is entered and
\* get_results(id) is called; the call waits on the server.
AcquireLock(t) ==
    /\ pc[t] = "want_lock"
    /\ lock = NoThread
    /\ lock' = t
    /\ pc' = [pc EXCEPT ![t] = "polling"]
    /\ UNCHANGED <<libvars, fsvars, svcvars, buildvars, received, variant, input, submitted, call, ret, futures, next_id, future_buffer, queue,
                   running, results_buffer, batch, returned, placed, submits>>

\* RPCService.get_results: under the condition's lock the wait loop ends
\* with the id in the buffer, the buffer is taken and replaced by an empty
\* dict, and the taken dict is returned pickled.
GetResults(t) ==
    /\ pc[t] = "polling"
    /\ CanDrain(results_buffer, call[t].id)
    /\ batch' = [batch EXCEPT ![t] = Pickle(DrainBatch(results_buffer, call[t].id))]
    /\ results_buffer' = DrainRest(results_buffer, call[t].id)
    /\ returned' = returned \o DrainBatch(results_buffer, call[t].id)
    /\ pc' = [pc EXCEPT ![t] = "distribute"]
    /\ UNCHANGED <<libvars, fsvars, svcvars, buildvars, received, variant, input, submitted, call, ret, futures, next_id, future_buffer, lock,
                   queue, running, placed, submits>>

\* _get_result after the reply: the batch is loaded and distributed, the
\* lock is released, and result()/exception() ends on the future's slots
\* (or with the KeyError of the distribution loop).
Distribute(t) ==
    /\ pc[t] = "distribute"
    /\ LET d == DistributeLoop(Unpickle(batch[t]), future_buffer, futures)
       IN  /\ future_buffer' = d.fb
           /\ futures' = d.fs
           /\ ret' = [ret EXCEPT ![t] =
                        IF d.err THEN Raised("KeyError")
                        ELSE Outcome(d.fs[call[t].fut], call[t].kind)]
    /\ batch' = [batch EXCEPT ![t] = <<>>]
    /\ lock' = NoThread
    /\ pc' = [pc EXCEPT ![t] = "idle"]
    /\ UNCHANGED <<libvars, fsvars, svcvars, buildvars, received, variant, input, submitted, call, next_id, queue, running, results_buffer,
                   returned, placed, submits>>

\* ------------------------------------------------------- specification

\* The argument a call of method m is made with: echo gets the session's
\* input, fail takes none.
Arg(m) == IF m = "echo" THEN input ELSE NoneVal

Next ==
    \/ \E t \in Threads, m \in Methods : RunBegin(t, m, Arg(m))
    \/ \E t \in Threads, m \in Methods : LocalSubmitBegin(t, m, Arg(m))
    \/ \E t \in Threads, m \in Methods : PoolSubmit(t, m, Arg(m))
    \/ \E t \in Threads, m \in Methods : RemoteReadId(t, m, Arg(m))
    \/ \E t \in Threads : RunEnd(t)
    \/ \E t \in Threads : LocalSubmitEnd(t)
    \/ \E t \in Threads : RemoteBumpId(t)
    \/ \E t \in Threads : RemoteStore(t)
    \/ \E t \in Threads : RemoteSend(t)
    \/ WorkerStart
    \/ WorkerFinish
    \/ \E t \in Threads, h \in 1..MaxTasks, timed \in BOOLEAN :
          ResultBegin(t, h, "result", timed)
    \/ \E t \in Threads, h \in 1..MaxTasks : ResultBegin(t, h, "exception", FALSE)
    \/ \E t \in Threads : PoolWake(t)
    \/ \E t \in Threads : TimeoutElapses(t)
    \/ \E t \in Threads : AcquireLock(t)
    \/ \E t \in Threads : GetResults(t)
    \/ \E t \in Threads : Distribute(t)

Spec == Init /\ [][Next]_vars

\* One remote session whose client threads submit tasks and wait for their
\* results.
RemoteInit == Init /\ variant = "Remote"

RemoteNext ==
    \/ \E t \in Threads, m \in Methods : RemoteReadId(t, m, Arg(m))
    \/ \E t \in Threads : RemoteBumpId(t)
    \/ \E t \in Threads : RemoteStore(t)
    \/ \E t \in Threads : RemoteSend(t)
    \/ WorkerStart
    \/ WorkerFinish
    \/ \E t \in Threads, h \in 1..MaxTasks : ResultBegin(t, h, "result", FALSE)
    \/ \E t \in Threads : AcquireLock(t)
    \/ \E t \in Threads : GetResults(t)
    \/ \E t \in Threads : Distribute(t)

RemoteSpec == RemoteInit /\ [][RemoteNext]_vars

\* An executor of any variant whose client threads call run_task.
RunNext ==
    \/ \E t \in Threads, m \in Methods : RunBegin(t, m, Arg(m))
    \/ \E t \in Threads : RunEnd(t)

RunSpec == Init /\ [][RunNext]_vars

\* A remote session whose service also has the method that raises
\* SystemExit.
AbortNext ==
    \/ \E t \in Threads, m \in AllMethods : RemoteReadId(t, m, Arg(m))
    \/ \E t \in Threads : RemoteBumpId(t)
    \/ \E t \in Threads : RemoteStore(t)
    \/ \E t \in Threads : RemoteSend(t)
    \/ WorkerStart
    \/ WorkerFinish
    \/ \E t \in Threads, h \in 1..MaxTasks : ResultBegin(t, h, "result", FALSE)
    \/ \E t \in Threads : AcquireLock(t)
    \/ \E t \in Threads : GetResults(t)
    \/ \E t \in Threads : Distribute(t)

AbortSpec == RemoteInit /\ [][AbortNext]_vars

\* The server side of a remote session: the client threads submit tasks,
\* the server queues them as their requests arrive and its worker runs
\* them; no result is fetched.
FifoNext ==
    \/ \E t \in Threads, m \in AllMethods : RemoteReadId(t, m, Arg(m))
    \/ \E t \in Threads : RemoteBumpId(t)
    \/ \E t \in Threads : RemoteStore(t)
    \/ \E t \in Threads : RemoteSend(t)
    \/ WorkerStart
    \/ WorkerFinish

FifoSpec == RemoteInit /\ [][FifoNext]_vars

\* A remote session in which a submit_func request can fail.
SendNext ==
    \/ FifoNext
    \/ \E t \in Threads : RemoteSendFails(t)

SendSpec == RemoteInit /\ [][SendNext]_vars

\* One Threaded or Process executor whose client threads submit tasks and
\* wait for them with and without a timeout.  The pool's worker thread
\* (process) keeps running: it takes a queued work item and finishes it.
PoolInit == Init /\ variant \in Pooled

PoolNext ==
    \/ \E t \in Threads, m \in Methods : PoolSubmit(t, m, Arg(m))
    \/ WorkerStart
    \/ WorkerFinish
    \/ \E t \in Threads, h \in 1..MaxTasks, timed \in BOOLEAN :
          ResultBegin(t, h, "result", timed)
    \/ \E t \in Threads : PoolWake(t)
    \/ \E t \in Threads : TimeoutElapses(t)

PoolSpec ==
    PoolInit /\ [][PoolNext]_vars /\ WF_vars(WorkerStart) /\ WF_vars(WorkerFinish)

\* ------------------------------------------------- filesystem resources

\* The executor variables, which the filesystem operations leave alone.
execvars == <<variant, input, pc, call, ret, futures, next_id, future_buffer,
              lock, queue, running, results_buffer, batch, returned, placed,
              submits, submitted, received>>

\* FilesystemResource.filesystem_id of the server process (the node on which
\* access() is called) and of the client processes.
ThisNode == "server"
ClientNodes == {"n1", "n2"}
Nodes == {ThisNode} \cup ClientNodes

Paths == {"/data/a", "/data/b"}

\* The FilesystemResource objects of the session.
Instances == {"r1", "r2"}

\* os.path.basename(path)
Basename(p) == IF p = "/data/a" THEN "a" ELSE "b"

\* os.path.join("./tmp/instance_id", os.path.basename(path))
TargetPath(p) == <<"./tmp/instance_id", Basename(p)>>

\* A uuid.UUID as a dict key, and the key str(id): they hash and compare
\* differently, so one is never found where the other was stored.
UuidKey(id) == <<"uuid", id>>
StrKey(id) == <<"str", id>>

\* RPCService.register_filesystem_access: "if id in self.dir_file_getters:
\* raise RuntimeError", else "self.dir_file_getters[str(id)] = cb".
register_filesystem_access(getters, id, cb) ==
    IF UuidKey(id) \in DOMAIN getters
    THEN [getters |-> getters, ret |-> Raised("RuntimeError")]
    ELSE [getters |-> MapPut(getters, StrKey(id), cb), ret |-> Returned(NoneVal)]

\* A test for local ownership that never succeeds.
IsLocalNever(res) == FALSE

\* FilesystemResource.access: self._id == FilesystemResource.filesystem_id
IsLocal(res) == res.id = ThisNode

\* RemoteServiceExecutor.__init__ on a client node: rpyc.connect gives the
\* connection its own RPCService, and the client registers its filesystem
\* callback under its node id.  A RuntimeError leaves the constructor and
\* the connection is dropped.
Connect(n) ==
    /\ Len(sessions) < MaxSessions
    /\ LET s == Len(sessions) + 1
           r == register_filesystem_access(dir_file_getters, n, s)
       IN  /\ dir_file_getters' = r.getters
           /\ fs_ret' = r.ret
           /\ sessions' = Append(sessions,
                              [node |-> n, open |-> r.ret.tag = "return"])
    /\ UNCHANGED <<libvars, execvars, svcvars, buildvars, resources, scratch>>

\* A connection ends.  RPCService defines no on_disconnect: the class-level
\* registry keeps what the session registered.
Disconnect(s) ==
    /\ s \in DOMAIN sessions
    /\ sessions[s].open
    /\ sessions' = [sessions EXCEPT ![s].open = FALSE]
    /\ fs_ret' = Returned(NoneVal)
    /\ UNCHANGED <<libvars, execvars, svcvars, buildvars, dir_file_getters, resources, scratch>>

\* FilesystemResource(path) constructed on node n, whose object is then
\* present on the server (created there, or received with its _id).
NewResource(r, n, p) ==
    /\ r \notin DOMAIN resources
    /\ resources' = MapPut(resources, r,
                        [id |-> n, path |-> p, local_path |-> NoneVal,
                         accesses |-> 0, fetches |-> 0])
    /\ fs_ret' = Returned(NoneVal)
    /\ UNCHANGED <<libvars, execvars, svcvars, buildvars, dir_file_getters, sessions, scratch>>

\* RPCService.get_dir_or_file(id, path): look the callback up under str(id)
\* (KeyError without one), call it (EOFError on a closed connection), decode
\* what it sent into the cleaned ./tmp/instance_id and return the path of
\* the object there.
get_dir_or_file(id, p) ==
    IF StrKey(id) \notin DOMAIN dir_file_getters
    THEN [ret |-> Raised("KeyError"), called |-> FALSE, decoded |-> FALSE]
    ELSE IF ~sessions[dir_file_getters[StrKey(id)]].open
    THEN [ret |-> Raised("EOFError"), called |-> TRUE, decoded |-> FALSE]
    ELSE [ret |-> Returned(TargetPath(p)), called |-> TRUE, decoded |-> TRUE]

\* FilesystemResource.access() on the server.
Access(r) ==
    /\ r \in DOMAIN resources
    /\ resources[r].accesses < MaxAccess
    /\ LET res == resources[r]
       IN  IF IsLocal(res)
           THEN /\ resources' = [resources EXCEPT ![r].local_path = res.path,
                                                  ![r].accesses = @ + 1]
                /\ fs_ret' = Returned(res.path)
                /\ UNCHANGED scratch
           ELSE LET g == get_dir_or_file(res.id, res.path)
                IN  /\ resources' = [resources EXCEPT
                          ![r].local_path =
                              IF g.ret.tag = "return" THEN g.ret.val ELSE @,
                          ![r].accesses = @ + 1,
                          ![r].fetches = IF g.called THEN @ + 1 ELSE @]
                    /\ fs_ret' = g.ret
                    /\ scratch' = IF g.decoded THEN {Basename(res.path)}
                                  ELSE scratch
    /\ UNCHANGED <<libvars, execvars, svcvars, buildvars, dir_file_getters, sessions>>

FsInit == Init /\ variant = "Remote" /\ input = NoneVal

FsNext ==
    \/ \E n \in ClientNodes : Connect(n)
    \/ \E s \in 1..MaxSessions : Disconnect(s)
    \/ \E r \in Instances, n \in Nodes, p \in Paths : NewResource(r, n, p)
    \/ \E r \in Instances : Access(r)

FsSpec == FsInit /\ [][FsNext]_vars

\* ------------------------------------------------- a stateful service

\* The service method "count": self.n += 1; return self.n.  It is applied
\* to the state n of the instance it is called on and gives the instance's
\* new state, which is also what it returns.
count(n) == n + 1

\* A work item of the pool.  Threaded and Remote: the bound method refers to
\* the executor's instance.  Process: the bound method is pickled together
\* with its instance when the item is fed to the worker process; until then
\* the item holds no copy.
Shared == [kind |-> "shared", n |-> 0]
Unfed == [kind |-> "unfed", n |-> 0]

\* The work item as it reaches the worker process, with the unpickled copy
\* of the instance in state n.
Fed(n) == [kind |-> "copy", n |-> n]

\* self._executor.submit(f, ...) with f = getattr(self._service, fname)
WorkItem(v) == IF v = "Process" THEN Unfed ELSE Shared

\* run_task: every variant calls the method on the executor's instance
\* (Remote: call_func on the server's instance).
CountRun ==
    /\ calls < MaxCalls
    /\ calls' = calls + 1
    /\ service' = count(service)
    /\ log' = Append(log, count(service))
    /\ UNCHANGED <<libvars, execvars, fsvars, buildvars, work>>

\* submit_task.  Local calls run_task at once; the others queue a work item.
CountSubmit ==
    /\ calls < MaxCalls
    /\ calls' = calls + 1
    /\ IF variant = "Local"
       THEN /\ service' = count(service)
            /\ log' = Append(log, count(service))
            /\ UNCHANGED work
       ELSE /\ work' = Append(work, WorkItem(variant))
            /\ UNCHANGED <<service, log>>
    /\ UNCHANGED <<libvars, execvars, fsvars, buildvars>>

\* ProcessPoolExecutor: a queued work item is pickled for the worker
\* process, the instance of its bound method as it is at that moment.
CountFeed(i) ==
    /\ i \in DOMAIN work
    /\ work[i] = Unfed
    /\ \A j \in 1..(i - 1) : work[j] # Unfed
    /\ work' = [work EXCEPT ![i] = Fed(Unpickle(Pickle(service)))]
    /\ UNCHANGED <<libvars, execvars, fsvars, buildvars, service, log, calls>>

\* The single worker executes the oldest work item: on the executor's
\* instance, or (Process) on the copy that came with the item, which is
\* dropped afterwards.
CountWork ==
    /\ work # <<>>
    /\ Head(work) # Unfed
    /\ work' = Tail(work)
    /\ IF Head(work) = Shared
       THEN /\ service' = count(service)
            /\ log' = Append(log, count(service))
       ELSE /\ log' = Append(log, count(Head(work).n))
            /\ UNCHANGED service
    /\ UNCHANGED <<libvars, execvars, fsvars, buildvars, calls>>

SvcInit == Init /\ input = NoneVal

SvcNext ==
    \/ CountRun
    \/ CountSubmit
    \/ \E i \in 1..MaxCalls : CountFeed(i)
    \/ CountWork

SvcSpec == SvcInit /\ [][SvcNext]_vars

\* ------------------------------------------------------- construction

\* What plugin_info's properties object holds for python_module_file:
\* nothing, a value that is not a string, or a string.
Props == {"absent", "int", "str"}

\* PluginInfo.expect_property_attributes for the one annotation
\* python_module_file: str of PythonModuleRequirement.
expect_property_attributes(p) ==
    IF p = "absent" THEN Raised("RuntimeError")
    ELSE IF p # "str" THEN Raised("RuntimeError")
    ELSE Returned(NoneVal)

\* service_class(plugin_module_path, *service_args, **service_kw_args)
ServiceCtor(raises) ==
    IF raises THEN Raised("CtorError") ELSE Returned(NoneVal)

\* A construction that goes on although the constructor step raised.
StageAfterDeferred(o, next) == next

\* Where a construction step leaves the construction: an exception leaves
\* the constructor and no object exists.
StageAfter(o, next) == IF o.tag = "raise" THEN "failed" ELSE next

\* ServiceDescription(service_class, plugin_info, ...)
Describe ==
    /\ stage = "start"
    /\ LET o == expect_property_attributes(props)
       IN  /\ build_ret' = o
           /\ stage' = StageAfter(o, "described")
    /\ UNCHANGED <<libvars, execvars, fsvars, svcvars, props, ctor_raises, rpc>>

\* LocalServiceExecutor / ThreadedServiceExecutor / ProcessServiceExecutor
\* (service_description): the service is constructed in __init__.
Construct ==
    /\ variant # "Remote"
    /\ stage = "described"
    /\ LET o == ServiceCtor(ctor_raises)
       IN  /\ build_ret' = o
           /\ stage' = StageAfter(o, "built")
    /\ UNCHANGED <<libvars, execvars, fsvars, svcvars, props, ctor_raises, rpc>>

\* RemoteServiceExecutor.__init__, first part: connect and register the
\* filesystem callback of this client node.
RemoteConnect(n) ==
    /\ variant = "Remote"
    /\ stage = "described"
    /\ LET s == Len(sessions) + 1
           r == register_filesystem_access(dir_file_getters, n, s)
       IN  /\ dir_file_getters' = r.getters
           /\ build_ret' = r.ret
           /\ stage' = StageAfter(r.ret, "registered")
           /\ sessions' = Append(sessions,
                              [node |-> n, open |-> r.ret.tag = "return"])
    /\ UNCHANGED <<libvars, execvars, svcvars, resources, scratch, fs_ret, props,
                   ctor_raises, rpc>>

\* RemoteServiceExecutor.__init__: copy_plugin on the server stores the
\* plugin path.
CopyPlugin ==
    /\ variant = "Remote"
    /\ stage = "registered"
    /\ rpc' = [rpc EXCEPT !.plugin_path = TRUE]
    /\ build_ret' = Returned(NoneVal)
    /\ stage' = "connected"
    /\ UNCHANGED <<libvars, execvars, fsvars, svcvars, props, ctor_raises>>

\* RPCService.init_service: os.path.join(self._plugin_path, ...) needs the
\* plugin path, then the service class is called and, when it returns,
\* the instance is stored in self._service.
init_service(r, raises) ==
    IF ~r.plugin_path THEN [ret |-> Raised("AttributeError"), rpc |-> r]
    ELSE IF ServiceCtor(raises).tag = "raise"
         THEN [ret |-> ServiceCtor(raises), rpc |-> r]
         ELSE [ret |-> Returned(NoneVal), rpc |-> [r EXCEPT !.service = TRUE]]

\* RemoteServiceExecutor.__init__, second part: init_service on the server
\* constructs the service; its exception comes back through the call.
InitService ==
    /\ variant = "Remote"
    /\ stage = "connected"
    /\ LET o == init_service(rpc, ctor_raises)
       IN  /\ build_ret' = o.ret
           /\ rpc' = o.rpc
           /\ stage' = StageAfter(o.ret, "built")
    /\ UNCHANGED <<libvars, execvars, fsvars, svcvars, props, ctor_raises>>

BuildInit ==
    /\ Fresh
    /\ input = NoneVal
    /\ props \in Props
    /\ ctor_raises \in BOOLEAN
    /\ stage = "start"
    /\ build_ret = NoRet
    /\ rpc = [plugin_path |-> FALSE, service |-> FALSE]

\* The construction, and the run and submit calls of the client threads.
BuildNext ==
    \/ Describe
    \/ Construct
    \/ RemoteConnect("n1")
    \/ CopyPlugin
    \/ InitService
    \/ \E t \in Threads, m \in Methods : RunBegin(t, m, Arg(m))
    \/ \E t \in Threads : RunEnd(t)
    \/ \E t \in Threads, m \in Methods : LocalSubmitBegin(t, m, Arg(m))
    \/ \E t \in Threads : LocalSubmitEnd(t)
    \/ \E t \in Threads, m \in Methods : PoolSubmit(t, m, Arg(m))
    \/ \E t \in Threads, m \in Methods : RemoteReadId(t, m, Arg(m))
    \/ \E t \in Threads : RemoteBumpId(t)
    \/ \E t \in Threads : RemoteStore(t)
    \/ \E t \in Threads : RemoteSend(t)
    \/ WorkerStart
    \/ WorkerFinish

BuildSpec == BuildInit /\ [][BuildNext]_vars

\* ------------------------------------------------ PluginFinder calls

\* The variables outside the library objects.
servicevars == <<execvars, fsvars, svcvars, buildvars>>

\* PluginFinder.add_to_pipeline
AddToPipeline(st) ==
    /\ Len(pipeline_steps) < MaxSteps
    /\ pipeline_steps' = Append(pipeline_steps, st)
    /\ UNCHANGED <<servicevars, encvars, paramvars, error_string, finder_ret, step_calls>>

\* PluginFinder.find_all, iterated to its end.
FindAll(extra) ==
    /\ finder_ret' = [NoFind EXCEPT !.op = "find_all", !.extra = extra,
                                    !.all = find_all(pipeline_steps, extra)]
    /\ step_calls' = find_all_calls(pipeline_steps, extra)
    /\ UNCHANGED <<servicevars, encvars, paramvars, pipeline_steps, error_string>>

\* PluginFinder.find_by_name
FindByName(name, extra) ==
    /\ LET r == find_by_name(error_string, pipeline_steps, name, extra)
       IN  /\ error_string' = r.err
           /\ finder_ret' = [NoFind EXCEPT !.op = "find_by_name", !.name = name,
                                           !.extra = extra, !.one = r.info]
           /\ step_calls' = r.calls
    /\ UNCHANGED <<servicevars, encvars, paramvars, pipeline_steps>>

FinderInit == Init /\ variant = "Local" /\ input = NoneVal

FinderNext ==
    \/ \E st \in Steps : AddToPipeline(st)
    \/ \E extra \in Extras : FindAll(extra)
    \/ \E name \in Names, extra \in Extras : FindByName(name, extra)

FinderSpec == FinderInit /\ [][FinderNext]_vars

\* ------------------------------------------------- parameter objects

\* The name of the parameter that is constructed on its own.
SoleName == "p"

\* The option lists an OptionsParameter is constructed with.
OptionLists == {<<>>, <<"a">>, <<"a", "b">>, <<"a", "a">>, <<"b", "a", "c">>}

\* The outcome of a constructor call.
NewParameter(c) ==
    /\ parameters = <<>>
    /\ IF c.ok
       THEN /\ parameters' = MapPut(parameters, SoleName, c.p)
            /\ param_ret' = [NoParamRet EXCEPT !.op = "new"]
       ELSE /\ param_ret' = [NoParamRet EXCEPT !.op = "new",
                                               !.raised = "ParameterConfigError"]
            /\ UNCHANGED parameters
    /\ UNCHANGED <<servicevars, encvars, findervars, on_change, notified>>

\* IntParameter(default, min, max, name="p", type="int")
NewIntParameter(default, min, max) == NewParameter(NumCtor("int", default, min, max))

\* FloatParameter(default, min, max, name="p", type="float")
NewFloatParameter(default, min, max) ==
    NewParameter(NumCtor("float", default, min, max))

\* OptionsParameter(options, default, name="p", type="options")
NewOptionsParameter(options, default) == NewParameter(OptCtor(options, default))

\* set_value(v) on the parameter.
SetValue(v) ==
    /\ SoleName \in DOMAIN parameters
    /\ LET r == set_value(parameters[SoleName], v)
       IN  /\ parameters' = [parameters EXCEPT ![SoleName] = r.p]
           /\ param_ret' = [NoParamRet EXCEPT !.op = "set",
                                              !.args = MapPut(<<>>, SoleName, v),
                                              !.flags = MapPut(<<>>, SoleName, r.ret)]
    /\ UNCHANGED <<servicevars, encvars, findervars, on_change, notified>>

ParamInit == Init /\ variant = "Local" /\ input = NoneVal

ParamNext ==
    \/ \E d \in IntVals \cup {PyNone, FloatV(1)},
          lo, hi \in {PyNone, StrV("a")} \cup {IntV(k) : k \in BoundNumbers} :
              NewIntParameter(d, lo, hi)
    \/ \E d \in FloatVals \cup {IntV(1)},
          lo, hi \in {PyNone, IntV(1)} \cup {FloatV(k) : k \in BoundNumbers} :
              NewFloatParameter(d, lo, hi)
    \/ \E o \in OptionLists,
          d \in {PyNone, StrV(""), StrV("a"), StrV("zzz"), IntV(0), IntV(1),
                 IntV(3), FloatV(1)} :
              NewOptionsParameter(o, d)
    \/ \E v \in SetArgs : SetValue(v)

ParamSpec == ParamInit /\ [][ParamNext]_vars

\* --------------------------------------------------------- ConfigHandle

\* The plugin's config_specification: an int parameter "count" with default
\* 1, min 1 and max 2, and an options parameter "mode" with the options a
\* and b.
ConfigNames == {"count", "mode"}

\* parameters_from_dict: the Parameter object of every specification entry.
parameters_from_dict ==
    [n \in ConfigNames |->
        IF n = "count" THEN NumCtor("int", IntV(1), IntV(1), IntV(2)).p
        ELSE OptCtor(<<"a", "b">>, PyNone).p]

\* ConfigHandle(pinfo, on_parameter_value_change=...)
NewConfigHandle(cb) ==
    /\ parameters = <<>>
    /\ parameters' = parameters_from_dict
    /\ on_change' = cb
    /\ param_ret' = [NoParamRet EXCEPT !.op = "new"]
    /\ UNCHANGED <<servicevars, encvars, findervars, notified>>

\* The parameters after set_value was called on those named in kv.
SetAll(ps, kv) ==
    [n \in DOMAIN ps |->
        IF n \in DOMAIN kv THEN set_value(ps[n], kv[n]).p ELSE ps[n]]

\* success_dict of set_multiple_parameter_values.
SuccessDict(ps, kv) == [n \in DOMAIN kv |-> set_value(ps[n], kv[n]).ret]

\* A notification that names every parameter of the call.
ChangedParametersAll(ps, flags) == [n \in DOMAIN flags |-> get_value(ps[n])]

\* changed_parameters: the parameters whose set succeeded, with the values
\* they hold now.
ChangedParameters(ps, flags) ==
    [n \in {m \in DOMAIN flags : flags[m]} |-> get_value(ps[n])]

\* ConfigHandle.set_parameter_value
SetParameterValue(name, v) ==
    /\ name \in DOMAIN parameters
    /\ LET r == set_value(parameters[name], v)
       IN  /\ parameters' = [parameters EXCEPT ![name] = r.p]
           /\ notified' = IF r.ret /\ on_change
                           THEN <<MapPut(<<>>, name, get_value(r.p))>>
                           ELSE <<>>
           /\ param_ret' = [NoParamRet EXCEPT !.op = "set_parameter_value",
                                              !.args = MapPut(<<>>, name, v),
                                              !.flags = MapPut(<<>>, name, r.ret)]
    /\ UNCHANGED <<servicevars, encvars, findervars, on_change>>

\* ConfigHandle.set_multiple_parameter_values
SetMultiple(kv) ==
    /\ DOMAIN kv \subseteq DOMAIN parameters
    /\ LET flags == SuccessDict(parameters, kv)
           ps == SetAll(parameters, kv)
           changed == ChangedParameters(ps, flags)
       IN  /\ parameters' = ps
           /\ notified' = IF on_change /\ DOMAIN changed # {}
                           THEN <<changed>> ELSE <<>>
           /\ param_ret' = [NoParamRet EXCEPT !.op = "set_multiple",
                                              !.args = kv, !.flags = flags]
    /\ UNCHANGED <<servicevars, encvars, findervars, on_change>>

\* The key_value_dicts set_multiple_parameter_values is called with.
Dicts == UNION {[d -> SetArgs] : d \in SUBSET ConfigNames}

ConfigInit == Init /\ variant = "Local" /\ input = NoneVal

ConfigNext ==
    \/ \E cb \in BOOLEAN : NewConfigHandle(cb)
    \/ \E n \in ConfigNames, v \in SetArgs : SetParameterValue(n, v)
    \/ \E kv \in Dicts : SetMultiple(kv)

ConfigSpec == ConfigInit /\ [][ConfigNext]_vars

\* A key_value_dict as the list of its items in insertion order, which is
\* the order the comprehension that builds success_dict goes through.
Item(n, v) == [name |-> n, value |-> v]

\* The success_dict comprehension over the items: self._parameters[name]
\* raises KeyError at the first name the handle does not know, after
\* set_value was called on the parameters named before it.
RECURSIVE SetInOrder(_, _)
SetInOrder(ps, items) ==
    IF items = <<>> THEN [ps |-> ps, raised |-> ""]
    ELSE IF Head(items).name \notin DOMAIN ps
    THEN [ps |-> ps, raised |-> "KeyError"]
    ELSE SetInOrder([ps EXCEPT ![Head(items).name] =
                        set_value(@, Head(items).value).p], Tail(items))

\* ConfigHandle.set_multiple_parameter_values with a dict that has a name
\* the handle does not know: the KeyError leaves the method from line 72,
\* before the callback is looked at.
SetMultipleUnknown(items) ==
    /\ parameters # <<>>
    /\ LET r == SetInOrder(parameters, items)
       IN  /\ r.raised = "KeyError"
           /\ parameters' = r.ps
           /\ notified' = <<>>
           /\ param_ret' = [NoParamRet EXCEPT !.op = "set_multiple",
                                              !.raised = r.raised]
    /\ UNCHANGED <<servicevars, encvars, findervars, on_change>>

\* Dicts with the unknown name "other": alone, after a known name, or
\* before one.
UnknownItem == Item("other", IntV(1))
ItemLists ==
    {<<UnknownItem>>}
        \cup {<<Item(n, v), UnknownItem>> : n \in ConfigNames, v \in SetArgs}
        \cup {<<UnknownItem, Item(n, v)>> : n \in ConfigNames, v \in SetArgs}

ConfigErrNext ==
    \/ ConfigNext
    \/ \E items \in ItemLists : SetMultipleUnknown(items)

ConfigErrSpec == ConfigInit /\ [][ConfigErrNext]_vars

\* ----------------------------------------------------- directory encoder

\* File and directory names are sequences of characters, a path is a
\* sequence of names, and a path string joins the names with "/".
na == <<"a">>
nb == <<"b">>
nbc == <<"b", "c">>
nc == <<"c">>
nf == <<"f">>
ng == <<"g">>
nh == <<"h">>
nr == <<"r">>
nt == <<"t">>

\* The files of the source directory: a/b/f, a/b/t/g, a/bc/g, a/c/h and r.
Files ==
    {<<na, nb, nf>>, <<na, nb, nt, ng>>, <<na, nbc, ng>>, <<na, nc, nh>>, <<nr>>}

\* os.path.join of the names of a path.
RECURSIVE Join(_)
Join(path) ==
    IF Len(path) = 0 THEN <<>>
    ELSE IF Len(path) = 1 THEN path[1]
    ELSE path[1] \o <<"/">> \o Join(Tail(path))

\* x.startswith(y)
StartsWith(x, y) == Len(y) <= Len(x) /\ SubSeq(x, 1, Len(y)) = y

\* _is_subpath(base_path, subpath)
IsSubpath(base, sub) == StartsWith(sub, base) /\ Len(base) < Len(sub)

\* _clean_path for a relative path: a leading "./" is removed.
CleanPath(txt) ==
    IF StartsWith(txt, <<".", "/">>) THEN SubSeq(txt, 3, Len(txt)) ELSE txt

\* os.path.dirname of a path string.
Dirname(txt) ==
    LET slashes == {i \in DOMAIN txt : txt[i] = "/"}
    IN  IF slashes = {} THEN <<>>
        ELSE SubSeq(txt, 1, (CHOOSE i \in slashes : \A j \in slashes : j <= i) - 1)

\* The loop that collects the parent directories of a whitelist path.
RECURSIVE ParentExtensions(_)
ParentExtensions(txt) ==
    LET parent == Dirname(txt)
    IN  IF Len(parent) > 0 THEN {parent} \cup ParentExtensions(parent) ELSE {}

\* _whitelist_walk, preparation: the cleaned whitelist with the parents of
\* its paths.  No whitelist and the empty whitelist are both the empty set.
PrepareWhitelist(wl) ==
    LET cleaned == {CleanPath(txt) : txt \in wl}
    IN  cleaned \cup UNION {ParentExtensions(txt) : txt \in cleaned}

\* pattern.match(entry_name) for a pattern without special characters: the
\* name begins with the pattern.
Match(pattern, name) == StartsWith(name, pattern)

\* An ignore rule that excludes nothing.
IgnoredNever(name, ig) == FALSE

\* any({pattern.match(entry_name) for pattern in compiled_ignore_patterns})
Ignored(name, ig) == \E pattern \in ig : Match(pattern, name)

\* os.listdir(curr_dir) and os.path.isdir on the source directory.
Under(path) == {f \in Files : Len(f) > Len(path) /\ SubSeq(f, 1, Len(path)) = path}
ListDir(curr) == {f[Len(curr) + 1] : f \in Under(curr)}
IsDir(path) == Under(path) # {}

\* _whitelist_walk_impl: the files the walk yields from curr_dir on.
RECURSIVE whitelist_walk_impl(_, _, _)
whitelist_walk_impl(wl, ig, curr) ==
    LET kept == {n \in ListDir(curr) :
                    /\ wl # {} => Join(Append(curr, n)) \in wl
                    /\ ~Ignored(n, ig)}
        filenames == {Append(curr, n) : n \in {m \in kept : ~IsDir(Append(curr, m))}}
        dirpaths == {Append(curr, n) : n \in {m \in kept : IsDir(Append(curr, m))}}
    IN  filenames \cup
        UNION {whitelist_walk_impl({txt \in wl : IsSubpath(Join(d), txt)}, ig, d) :
                  d \in dirpaths}

\* encode_directory: the archive paths written.  Without whitelist and
\* ignore patterns os.walk yields every file.
encode_directory(wl, ig) ==
    IF wl # {} \/ ig # {}
    THEN whitelist_walk_impl(PrepareWhitelist(wl), ig, <<>>)
    ELSE Files

\* The paths a whitelist is made of, and the ignore patterns.
WhitelistPaths ==
    {Join(<<na>>), Join(<<na, nb>>), Join(<<na, nbc>>), Join(<<na, nc>>),
     Join(<<na, nb, nf>>), Join(<<nr>>), <<".", "/">> \o Join(<<na, nc>>)}

Patterns == {nb, nt, nh}

\* encode_directory(source_directory, whitelist, ignore_patterns)
Encode(wl, ig) ==
    /\ Cardinality(wl) <= MaxWhitelist
    /\ enc_args' = [op |-> "encode", whitelist |-> wl, ignore |-> ig]
    /\ archive' = encode_directory(wl, ig)
    /\ UNCHANGED <<servicevars, findervars, paramvars>>

EncInit == Init /\ variant = "Local" /\ input = NoneVal

EncNext == \E wl \in SUBSET WhitelistPaths, ig \in SUBSET Patterns : Encode(wl, ig)

EncSpec == EncInit /\ [][EncNext]_vars

\* ---------------------------------------------------------------- claims

Handles(buf) == {buf[i].h : i \in DOMAIN buf}

\* C1: every TaskResult placed in the result buffer is still in the buffer
\* or was returned by a get_results batch, and no id appears twice among
\* the returned results.
C1_NoLossNoDuplicate ==
    /\ \A i, j \in DOMAIN returned : i # j => returned[i].id # returned[j].id
    /\ \A h \in placed : h \in Handles(results_buffer) \cup Handles(returned)

\* C2: a get_results(id) that returns does so with id in the buffer; its
\* batch is the whole buffer of that moment, contains id, holds only ids of
\* submitted tasks, and leaves the buffer empty; a result the worker writes
\* is in the buffer after the write.
C2_DrainTakesWholeBuffer ==
    [][/\ \A t \in Threads :
              (pc[t] = "polling" /\ pc'[t] = "distribute") =>
                  /\ call[t].id \in Ids(results_buffer)
                  /\ Unpickle(batch'[t]) = results_buffer
                  /\ call[t].id \in Ids(Unpickle(batch'[t]))
                  /\ Ids(Unpickle(batch'[t])) \subseteq 0..(submits - 1)
                  /\ results_buffer' = <<>>
       /\ (placed' \ placed) \subseteq Handles(results_buffer')]_vars

\* C2's case: both tasks 0 and 1 have completed and one get_results(1) has
\* returned a batch with both results.
C2_Witness ==
    \E t \in Threads :
        /\ pc[t] = "distribute"
        /\ call[t].id = 1
        /\ placed = {1, 2}
        /\ Ids(Unpickle(batch[t])) = {0, 1}
        /\ results_buffer = <<>>

\* C3: a client thread that polls for a task the server has completed is
\* not left waiting: the result it polls for is in the buffer.
C3_CompletedPollReturns ==
    \A t \in Threads :
        (pc[t] = "polling" /\ call[t].fut \in placed)
            => CanDrain(results_buffer, call[t].id)

\* C4: no two RemoteFutures of the executor have the same task id.
C4_UniqueIds ==
    \A h1, h2 \in DOMAIN futures :
        (h1 # h2 /\ futures[h1].cls = "RemoteFuture"
                 /\ futures[h2].cls = "RemoteFuture")
            => futures[h1].id # futures[h2].id

\* C5: on the Threaded and the Remote executor no run executes a service
\* method while the worker executes a submitted task on the same instance.
C5_Serialized ==
    variant \in {"Threaded", "Remote"} =>
        ~(running # <<>> /\ \E t \in Threads : pc[t] = "in_run")

\* C6: on every variant a finished run("echo", x) returned x, and a
\* finished result() of a future submitted for echo(x) returned x.
C6_EchoEquivalence ==
    \A t \in Threads :
        pc[t] = "idle" =>
            /\ (call[t].kind = "run" /\ call[t].fname = "echo")
                   => ret[t] = Returned(input)
            /\ (call[t].kind = "result" /\ ~call[t].elapsed
                    /\ submitted[call[t].fut] = "echo")
                   => ret[t] = Returned(input)

\* C7: a finished result() on a done RemoteFuture raised the stored error
\* if one was recorded and otherwise returned the stored value.
C7_ErrorSlotDecides ==
    \A t \in Threads :
        (/\ pc[t] = "idle"
         /\ call[t].kind = "result"
         /\ futures[call[t].fut].cls = "RemoteFuture"
         /\ futures[call[t].fut].done)
            => ret[t] = IF futures[call[t].fut].exception = NoneVal
                        THEN Returned(futures[call[t].fut].result)
                        ELSE Raised(futures[call[t].fut].exception)

\* C8: on every variant a finished submit_task handed out a future; it
\* never raised.
C8_SubmitNeverRaises ==
    \A t \in Threads :
        (pc[t] = "idle" /\ call[t].kind = "submit") => ret[t].tag = "future"

\* C9: a submit_task on the Remote executor is never held up by another
\* thread that waits in result() for a task that has not finished.
C9_SubmitNotHeldUp ==
    \A t, u \in Threads :
        ~(/\ pc[t] = "store"
          /\ lock = u
          /\ pc[u] = "polling"
          /\ ~CanDrain(results_buffer, call[u].id))

\* C10: once the timeout of a result(timeout) call has elapsed with the
\* task not completed, the call has ended with TimeoutError.
C10_TimeoutEndsWait ==
    \A t \in Threads :
        (call[t].kind = "result" /\ call[t].elapsed)
            => (pc[t] = "idle" /\ ret[t] = Raised("TimeoutError"))

\* How the task a future was submitted for ends.
TaskOutcome(h) ==
    IF submitted[h] = "echo" THEN Returned(input) ELSE Raised("Err")

\* Thread t's last call was a result(timeout) on future h that ended with
\* TimeoutError.
TimedOutOn(t, h) ==
    /\ pc[t] = "idle"
    /\ call[t].kind = "result"
    /\ call[t].fut = h
    /\ call[t].elapsed
    /\ ret[t] = Raised("TimeoutError")

\* Thread u's last call was a result() on future h that ended without a
\* timeout.
FinishedResultOn(u, h) ==
    /\ pc[u] = "idle"
    /\ call[u].kind = "result"
    /\ call[u].fut = h
    /\ ~call[u].elapsed

\* C11: the step in which a result(timeout) times out leaves the work
\* queue, the running work item and the futures as they are; the future
\* timed out on later becomes done; and a result() on it that ends
\* afterwards ends as the task did (its value, or its error raised).
C11_TimeoutDoesNotCancel ==
    /\ [][\A t \in Threads :
              (~call[t].elapsed /\ call'[t].elapsed) =>
                  (queue' = queue /\ running' = running /\ futures' = futures)]_vars
    /\ \A t \in Threads, h \in 1..MaxTasks :
           TimedOutOn(t, h) ~> (h \in DOMAIN futures /\ futures[h].done)
    /\ [](\A t, u \in Threads, h \in 1..MaxTasks :
              (TimedOutOn(t, h) /\ FinishedResultOn(u, h))
                  => ret[u] = TaskOutcome(h))

\* C11's case: one thread timed out on a future, the task completed
\* later, and another thread's result() on that future returned the value.
C11_Witness ==
    \E t, u \in Threads, h \in 1..MaxTasks :
        /\ TimedOutOn(t, h)
        /\ FinishedResultOn(u, h)
        /\ futures[h].done
        /\ ret[u] = Returned(input)

\* C12: a RemoteFuture is done only if a result with its id was in a batch
\* get_results handed to the client, and a future that is done stays done
\* in every step.
C12_DoneAfterBatchAndStable ==
    /\ [](\A h \in DOMAIN futures :
              (futures[h].cls = "RemoteFuture" /\ futures[h].done)
                  => futures[h].id \in Ids(returned))
    /\ [][\A h \in DOMAIN futures : futures[h].done => futures'[h].done]_vars

\* C12's case: a RemoteFuture became done through a batch, a further task
\* was submitted afterwards and a further poll is under way.
C12_Witness ==
    /\ Len(futures) = 2
    /\ futures[1].cls = "RemoteFuture"
    /\ futures[1].done
    /\ futures[1].id \in Ids(returned)
    /\ ~futures[2].done
    /\ \E t \in Threads : pc[t] = "polling" /\ call[t].fut = 2

\* A value slot and an error slot that are not both set.
AtMostOneSet(r) == ~(r.result # NoneVal /\ r.exception # NoneVal)

\* C13: no TaskResult in the result buffer and no RemoteFuture has both
\* its value and its error set, and a RemoteFuture that is not done has
\* neither.
C13_ValueErrorExclusive ==
    /\ \A i \in DOMAIN results_buffer : AtMostOneSet(results_buffer[i])
    /\ \A h \in DOMAIN futures :
           futures[h].cls = "RemoteFuture" =>
               /\ AtMostOneSet(futures[h])
               /\ (~futures[h].done =>
                      (futures[h].result = NoneVal /\ futures[h].exception = NoneVal))

\* C13's case: one RemoteFuture was resolved with a value and another with
\* an error.
C13_Witness ==
    /\ Len(futures) = 2
    /\ futures[1].done /\ futures[1].result # NoneVal
    /\ futures[2].done /\ futures[2].exception # NoneVal

\* C14: every task accepted by submit_func that the worker has finished
\* (it is neither queued nor being executed), whatever its method returned
\* or raised, has had its TaskResult placed in the result buffer.
C14_FinishedTaskPlaced ==
    \A h \in DOMAIN futures :
        ( /\ futures[h].cls = "RemoteFuture"
          /\ futures[h].handed
          /\ h \notin Handles(queue)
          /\ h \notin Handles(running) ) => h \in placed

\* C15: when the client distributes a retrieved batch, the step does not end
\* with an error, every entry whose id is tracked in the future buffer
\* resolves its future with the entry's value and error, and an empty batch
\* changes neither the futures nor the future buffer.
C15_DistributeDiscardsUntracked ==
    [][\A t \in Threads :
          (pc[t] = "distribute" /\ pc'[t] = "idle") =>
              LET b == Unpickle(batch[t])
              IN  /\ ret'[t] # Raised("KeyError")
                  /\ \A i \in DOMAIN b :
                         b[i].id \in DOMAIN future_buffer =>
                             LET f == futures'[future_buffer[b[i].id]]
                             IN  /\ f.done
                                 /\ f.result = b[i].result
                                 /\ f.exception = b[i].exception
                  /\ (b = <<>> => (futures' = futures /\
                                   future_buffer' = future_buffer))]_vars

\* C16: a remotely-owned FilesystemResource fetches at most once: over all
\* its access() calls the node's callback is invoked at most one time.
C16_FetchAtMostOnce ==
    \A r \in DOMAIN resources :
        resources[r].id # ThisNode => resources[r].fetches <= 1

\* The step is an access() call on instance r.
AccessStep(r) ==
    /\ r \in DOMAIN resources
    /\ r \in DOMAIN resources'
    /\ resources'[r].accesses = resources[r].accesses + 1

\* C17: access() on a resource owned by the current node returns the
\* original path, invokes no filesystem callback (the instance's fetch count
\* stays 0, the registry is as it was) and decodes nothing (the scratch
\* directory is as it was), on every call.
C17_LocalAccessIsFree ==
    /\ [](\A r \in DOMAIN resources :
              resources[r].id = ThisNode => resources[r].fetches = 0)
    /\ [][\A r \in Instances :
              (AccessStep(r) /\ resources[r].id = ThisNode) =>
                  /\ fs_ret' = Returned(resources[r].path)
                  /\ resources'[r].local_path = resources[r].path
                  /\ resources'[r].path = resources[r].path
                  /\ resources'[r].fetches = 0
                  /\ scratch' = scratch
                  /\ dir_file_getters' = dir_file_getters
                  /\ sessions' = sessions]_vars

\* A locally-owned resource has been accessed twice, the second call has
\* returned its path, and the scratch directory holds a decoded object.
C17_Witness ==
    \E r \in DOMAIN resources :
        /\ resources[r].id = ThisNode
        /\ resources[r].accesses = 2
        /\ fs_ret = Returned(resources[r].path)
        /\ scratch # {}

\* C18: register_filesystem_access for a node id that already has a
\* callback in the registry ends with an error and leaves the registry as it
\* was.
C18_DuplicateRegistrationFails ==
    [][\A n \in ClientNodes :
          ( /\ Len(sessions') = Len(sessions) + 1
            /\ sessions'[Len(sessions')].node = n
            /\ StrKey(n) \in DOMAIN dir_file_getters ) =>
              /\ fs_ret' = Raised("RuntimeError")
              /\ dir_file_getters' = dir_file_getters]_vars

\* C19: every callback in the registry was registered by a session that is
\* still open: the registrations of an ended session are gone.
C19_RegistryScopedToSession ==
    \A k \in DOMAIN dir_file_getters : sessions[dir_file_getters[k]].open

\* C20: every call of the counting method, run or submitted, on any
\* executor variant observes the changes of all calls that ended before it:
\* the i-th call to end returns i.
C20_OneServiceInstance ==
    \A i \in DOMAIN log : log[i] = i

\* C21: on every executor variant a run of a method that raises E has ended
\* with E raised to the caller, not with a value and not with a future, and
\* a run that is still inside the method has handed nothing to its caller.
C21_RunRaisesToCaller ==
    \A t \in Threads :
        /\ (pc[t] = "idle" /\ call[t].kind = "run"
                /\ call_service_func(call[t].fname, call[t].arg).tag = "raise")
               => ret[t] = Raised(call_service_func(call[t].fname, call[t].arg).val)
        /\ pc[t] = "in_run" => ret[t] = NoRet

\* A run of the failing method on the Remote executor has ended while the
\* other thread is still inside its run.
C21_Witness ==
    /\ variant = "Remote"
    /\ pc["t1"] = "idle" /\ call["t1"].kind = "run" /\ call["t1"].fname = "fail"
    /\ ret["t1"] = Raised("Err")
    /\ pc["t2"] = "in_run"

\* The errors of construction.
BuildErrors == {"RuntimeError", "CtorError"}

\* C22: a plugin without a string python_module_file makes the
\* ServiceDescription raise, a raising service constructor makes the
\* construction of the executor raise (every variant); as long as no executor
\* has been built no task was run or submitted, and no future carries a
\* construction error.
C22_ConstructionFailsFast ==
    /\ props # "str" => stage \in {"start", "failed"}
    /\ (props # "str" /\ stage = "failed") => build_ret = Raised("RuntimeError")
    /\ ctor_raises => stage # "built"
    /\ (ctor_raises /\ props = "str" /\ stage = "failed")
          => build_ret = Raised("CtorError")
    /\ stage = "failed" => build_ret.tag = "raise"
    /\ stage # "built" =>
          /\ futures = <<>>
          /\ queue = <<>>
          /\ submits = 0
          /\ \A t \in Threads : pc[t] = "idle" /\ call[t] = NoCall
    /\ \A h \in DOMAIN futures :
          futures[h].exception \notin BuildErrors /\ futures[h].result \notin BuildErrors

\* The construction of a Remote executor has failed in init_service, after
\* the client had registered with the server.
C22_Witness ==
    /\ variant = "Remote"
    /\ ctor_raises
    /\ stage = "failed"
    /\ build_ret = Raised("CtorError")
    /\ Len(sessions) = 1

\* Every step of the chain lets the entry through.
AllStepsPass(name, chain) == \A i \in DOMAIN chain : name \in chain[i].passes

\* C23: a find_all call yields exactly the entries of the search directory
\* that every step of the finder's pipeline followed by the extra steps lets
\* through; with no step at all it yields every entry; and with one more
\* step, own or extra, it yields a subset of that.
C23_FindAllExact ==
    [][(finder_ret'.op = "find_all" /\ pipeline_steps' = pipeline_steps) =>
          /\ finder_ret'.all =
                {name \in Listing :
                    AllStepsPass(name, pipeline_steps \o finder_ret'.extra)}
          /\ (pipeline_steps \o finder_ret'.extra = <<>>
                 => finder_ret'.all = Listing)
          /\ \A st \in Steps :
                /\ find_all(Append(pipeline_steps, st), finder_ret'.extra)
                       \subseteq finder_ret'.all
                /\ find_all(pipeline_steps, Append(finder_ret'.extra, st))
                       \subseteq finder_ret'.all]_vars

\* A find_all with an own step and an extra step has yielded plugin_a alone.
C23_Witness ==
    /\ finder_ret.op = "find_all"
    /\ pipeline_steps = <<directory_filter>>
    /\ finder_ret.extra = <<lambda_step>>
    /\ finder_ret.all = {"plugin_a"}

\* C24: a find_by_name call returns None exactly when its name is '.' or
\* '..', is not in the search directory, or fails a step of the chain; the
\* error string after the call is empty when a PluginInfo was returned and
\* otherwise a message about the plugin name of this call; and no other
\* operation of the finder changes the error string.
C24_ErrorStringOfLastCall ==
    [][IF finder_ret'.op = "find_by_name" /\ pipeline_steps' = pipeline_steps
       THEN LET name == finder_ret'.name
                fails == \/ name \in DotNames
                         \/ name \notin Listing
                         \/ ~AllStepsPass(name,
                                 pipeline_steps \o finder_ret'.extra)
            IN  /\ (finder_ret'.one = NoneVal) <=> fails
                /\ ~fails => (finder_ret'.one = name /\ error_string' = NoError)
                /\ fails => (error_string'.kind # "" /\
                               error_string'.plugin = name)
       ELSE error_string' = error_string]_vars

\* A find_by_name of plugin_b has returned its PluginInfo through a pipeline
\* of two steps, and the error string is empty.
C24_Witness ==
    /\ finder_ret.op = "find_by_name"
    /\ finder_ret.name = "plugin_b"
    /\ finder_ret.one = "plugin_b"
    /\ pipeline_steps = <<file_filter, lambda_step>>
    /\ error_string = NoError

\* The sole parameter is an IntParameter or a FloatParameter.
IsNumeric(ps) == SoleName \in DOMAIN ps /\ ps[SoleName].cls \in {"int", "float"}

\* C25: an IntParameter or FloatParameter constructed with a minimum holds a
\* value that is not below it, and one constructed with a maximum holds a
\* value that is not above it, also when the bound is 0.
C25_ValueWithinBounds ==
    IsNumeric(parameters) =>
        LET p == parameters[SoleName]
        IN  /\ p.min # PyNone => p.min.n <= p.value.n
            /\ p.max # PyNone => p.value.n <= p.max.n

\* The sole parameter is an OptionsParameter.
IsOptions(ps) == SoleName \in DOMAIN ps /\ ps[SoleName].cls = "options"

\* C26: an OptionsParameter has one of its options selected in every state
\* after its construction (get_value returns a member of the options list),
\* an accepted set_value selects the option it names, and a rejected
\* set_value leaves the selection as it was.
C26_OneOptionSelected ==
    /\ [](IsOptions(parameters) =>
            \E i \in DOMAIN parameters[SoleName].options :
                get_value(parameters[SoleName]) = StrV(parameters[SoleName].options[i]))
    /\ [][(IsOptions(parameters) /\ param_ret'.op = "set") =>
            LET v == param_ret'.args[SoleName]
                p == parameters[SoleName]
                q == parameters'[SoleName]
            IN  /\ q.options = p.options
                /\ ~param_ret'.flags[SoleName] => q.choice = p.choice
                /\ param_ret'.flags[SoleName] =>
                      /\ v.t = "str" => get_value(q) = v
                      /\ v.t # "str" => get_value(q) = StrV(p.options[v.n + 1])]_vars

\* An OptionsParameter of three options with the last one selected has
\* rejected a set_value by an index outside the list.
C26_Witness ==
    /\ IsOptions(parameters)
    /\ parameters[SoleName].options = <<"b", "a", "c">>
    /\ parameters[SoleName].choice = 2
    /\ param_ret.op = "set"
    /\ param_ret.args[SoleName] = IntV(0 - 1)
    /\ param_ret.flags[SoleName] = FALSE

\* The value a parameter holds once set_value(v) has succeeded on it: v, or
\* for an OptionsParameter set by index the option at that index.
ValueSet(p, v) ==
    IF p.cls = "options" /\ v.t # "str" THEN StrV(p.options[v.n + 1]) ELSE v

\* C27: after set_parameter_value or set_multiple_parameter_values, every
\* parameter whose returned flag is True holds the value it was given and
\* every other parameter is as it was; with a change callback the call
\* notified once, with exactly the succeeded parameters mapped to their new
\* values, when at least one set succeeded, and not at all otherwise.
C27_NotifiesExactly ==
    [][param_ret'.op \in {"set_parameter_value", "set_multiple"} =>
          LET args == param_ret'.args
              flags == param_ret'.flags
              ok == {n \in DOMAIN args : flags[n]}
          IN  /\ DOMAIN flags = DOMAIN args
              /\ \A n \in DOMAIN parameters :
                    IF n \in ok
                    THEN get_value(parameters'[n]) = ValueSet(parameters[n], args[n])
                    ELSE parameters'[n] = parameters[n]
              /\ (on_change /\ ok # {}) =>
                    notified' = <<[n \in ok |-> ValueSet(parameters[n], args[n])]>>
              /\ (~on_change \/ ok = {}) => notified' = <<>>]_vars

\* A set_multiple_parameter_values for both parameters of which only the
\* one for count succeeded has notified the callback with count alone.
C27_Witness ==
    /\ on_change
    /\ param_ret.op = "set_multiple"
    /\ DOMAIN param_ret.args = ConfigNames
    /\ param_ret.flags["count"] /\ ~param_ret.flags["mode"]
    /\ Len(notified) = 1
    /\ DOMAIN notified[1] = {"count"}
    /\ notified[1]["count"] = IntV(2)

\* The whitelist path txt names the path or one of its ancestors.
Covers(txt, path) ==
    \E k \in 1..Len(path) : Join(SubSeq(path, 1, k)) = txt

\* Most specific wins: a file is selected when the longest whitelist path
\* that covers it has no whitelist path below it.
Selected(wl, f) ==
    \E txt \in wl :
        /\ Covers(txt, f)
        /\ \A other \in wl : Covers(other, f) => Len(other) <= Len(txt)
        /\ \A other \in wl : ~StartsWith(other, txt \o <<"/">>)

\* C28: without ignore patterns an encode_directory with a whitelist has
\* written exactly the files selected by most-specific-wins (with
\* {a, a/b} the content under a/b and nothing else under a), and with no
\* whitelist it has written every file.
C28_MostSpecificWins ==
    (enc_args.op = "encode" /\ enc_args.ignore = {}) =>
        LET wl == {CleanPath(txt) : txt \in enc_args.whitelist}
        IN  archive = IF wl = {} THEN Files
                      ELSE {f \in Files : Selected(wl, f)}

\* C29: the archive of an encode_directory is what the whitelist alone
\* selects, less exactly the files that have a name on their path (the
\* file's own or a directory's, at any depth) matching an ignore pattern.
C29_IgnoredSubtreesExcluded ==
    enc_args.op = "encode" =>
        archive = {f \in encode_directory(enc_args.whitelist, {}) :
                      \A i \in DOMAIN f : \A pattern \in enc_args.ignore :
                          ~Match(pattern, f[i])}

\* An encode whose whitelist names a/b/f and r while "b" is ignored has
\* written r and left out a/b/f.
C29_Witness ==
    /\ enc_args.op = "encode"
    /\ enc_args.ignore = {nb}
    /\ enc_args.whitelist = {Join(<<na, nb, nf>>), Join(<<nr>>)}
    /\ archive = {<<nr>>}

\* The futures of a sequence of work items.
HandleSeq(tasks) == [i \in DOMAIN tasks |-> tasks[i].h]

\* The work item the worker is in, if it is in one.
InService == IF running = WorkerEnded THEN <<>> ELSE running

\* A task the worker entered and never finished, its thread having ended.
Lost == IF running = WorkerEnded /\ Len(received) > Cardinality(placed)
        THEN <<received[Cardinality(placed) + 1]>> ELSE <<>>

\* C30: the tasks of a session whose results have entered the server's
\* buffer are the first ones the server received, the worker is in at most
\* one task, which is the next one received, and the tasks after it wait
\* in the order of their receipt: a task starts only after every task
\* received before it has finished.
C30_WorkerIsFifo ==
    variant = "Remote" =>
        /\ Len(running) <= 1
        /\ Cardinality(placed) <= Len(received)
        /\ placed = {received[i] : i \in 1..Cardinality(placed)}
        /\ received = SubSeq(received, 1, Cardinality(placed)) \o Lost
                          \o HandleSeq(InService) \o HandleSeq(queue)

\* The second task the server received is running, the first has finished
\* and its result is in the buffer, and the first was received although
\* its future was created second.
C30_Witness ==
    /\ variant = "Remote"
    /\ received = <<2, 1>>
    /\ placed = {2}
    /\ running # <<>>
    /\ running # WorkerEnded
    /\ running[1].h = 1

\* A call of the session has reached the server: a run_task is in the
\* service, or a task was received, is queued or is being worked on.
ServerCalled ==
    \/ \E t \in Threads : pc[t] = "in_run"
    \/ received # <<>>
    \/ queue # <<>>
    \/ running # <<>>

\* C31: in a remote session the server has the plugin path only after the
\* client has registered its filesystem callback, has the service instance
\* only after it has the plugin path, and no call_func or submit_func has
\* reached the server (and no service method is running) unless
\* init_service has returned and the service instance exists.
C31_SetupIsOrdered ==
    variant = "Remote" =>
        /\ rpc.plugin_path =>
              /\ Len(sessions) >= 1
              /\ StrKey(sessions[1].node) \in DOMAIN dir_file_getters
        /\ rpc.service => rpc.plugin_path
        /\ stage = "built" <=> rpc.service
        /\ ServerCalled => rpc.service /\ stage = "built"

\* A task was received by the server of a session that was set up step by
\* step from registration to init_service.
C31_Witness ==
    /\ variant = "Remote"
    /\ build_ret = Returned(NoneVal)
    /\ Len(sessions) = 1
    /\ rpc.service
    /\ received # <<>>

\* The task ids the server holds (queued, executing, buffered) together
\* with those of a batch that was retrieved and is not yet distributed.
ServerIds ==
    {queue[i].id : i \in DOMAIN queue}
        \cup {InService[i].id : i \in DOMAIN InService}
        \cup Ids(results_buffer)
        \cup UNION {Ids(Unpickle(batch[t])) :
                       t \in {u \in Threads : pc[u] = "distribute"}}

\* C32: in a remote session every task id the server holds, and every id
\* of a retrieved batch, has a RemoteFuture recorded under it in the
\* client's future map, and a RemoteFuture is in the map from its creation
\* until its result has been distributed to it, and not afterwards.
C32_ServerIdsTracked ==
    variant = "Remote" =>
        /\ ServerIds \subseteq DOMAIN future_buffer
        /\ \A id \in DOMAIN future_buffer :
               /\ futures[future_buffer[id]].cls = "RemoteFuture"
               /\ futures[future_buffer[id]].id = id
        /\ \A h \in DOMAIN futures :
               futures[h].done <=>
                   ~(/\ futures[h].id \in DOMAIN future_buffer
                     /\ future_buffer[futures[h].id] = h)

\* C33: the local path that access() returned for a remotely-owned
\* resource stays valid: the decoded object it names is in the scratch
\* directory, whatever other resources were resolved afterwards.
C33_DecodedPathsStayValid ==
    \A r \in DOMAIN resources :
        (resources[r].id # ThisNode /\ resources[r].local_path # NoneVal) =>
            resources[r].local_path[2] \in scratch

\* C34: after a submit_task on the Remote executor that ended with the
\* exception of its submit_func request, the RemoteFuture it had created is
\* not in the future buffer.
C34_FailedSubmitLeavesNoFuture ==
    variant = "Remote" =>
        \A t \in Threads :
            (pc[t] = "idle" /\ call[t].kind = "submit" /\ ret[t].tag = "raise") =>
                \A id \in DOMAIN future_buffer : future_buffer[id] # call[t].fut

\* C35: a set_multiple_parameter_values that raised KeyError for an unknown
\* name has changed no parameter, and on a handle with a change callback
\* every parameter that a set_multiple_parameter_values changed is named in
\* the notification of that call.
C35_SetMultipleAllOrNothing ==
    [][param_ret'.op = "set_multiple" =>
          /\ param_ret'.raised = "KeyError" => parameters' = parameters
          /\ on_change =>
                \A n \in DOMAIN parameters :
                    parameters'[n] # parameters[n] =>
                        /\ Len(notified') = 1
                        /\ n \in DOMAIN notified'[1]]_vars

\* The path is a file below the directory that the path string txt names.
Below(txt, path) ==
    \E k \in 1..(Len(path) - 1) : Join(SubSeq(path, 1, k)) = txt

\* No name on the path matches an ignore pattern.
NotIgnored(ig, path) ==
    \A i \in DOMAIN path : \A pattern \in ig : ~Match(pattern, path[i])

\* C36: every whitelisted directory with no whitelist path below it is in
\* the archive in full, i.e. with every file below it that has no ignored
\* name on its path, whatever else the whitelist holds.
C36_WhitelistedDirectoryInFull ==
    enc_args.op = "encode" =>
        LET wl == {CleanPath(txt) : txt \in enc_args.whitelist}
        IN  \A txt \in wl :
                (\A other \in wl : ~StartsWith(other, txt \o <<"/">>)) =>
                    \A f \in Files :
                        (Below(txt, f) /\ NotIgnored(enc_args.ignore, f)) =>
                            f \in archive

\* The number of steps of the chain an entry gets through before one fails.
RECURSIVE PassedBefore(_, _)
PassedBefore(name, chain) ==
    IF chain = <<>> \/ name \notin Head(chain).passes THEN 0
    ELSE 1 + PassedBefore(name, Tail(chain))

\* The calls are those of the steps 0, 1, ... of the chain in this order,
\* up to and including the first step the entry fails.
CalledInOrder(name, chain, called) ==
    LET k == PassedBefore(name, chain)
    IN  /\ Len(called) = IF k < Len(chain) THEN k + 1 ELSE k
        /\ \A j \in DOMAIN called : called[j] = j - 1

\* C37: a find call invokes on an entry the finder's own steps in insertion
\* order and then the extra steps, up to and including the first one that
\* fails and none after it; after a find_by_name that failed a step the
\* error string holds the index (from 0, over own and extra steps) and the
\* name of that step; and find_all leaves the error string as it was.
C37_PipelineStopsAtFirstFailure ==
    [][pipeline_steps' = pipeline_steps =>
          LET chain == pipeline_steps \o finder_ret'.extra
          IN  /\ \A name \in DOMAIN step_calls' :
                     CalledInOrder(name, chain, step_calls'[name])
              /\ finder_ret'.op = "find_all" =>
                     /\ error_string' = error_string
                     /\ DOMAIN step_calls' = Listing
              /\ (finder_ret'.op = "find_by_name" /\ finder_ret'.name \in Listing) =>
                     LET k == PassedBefore(finder_ret'.name, chain)
                     IN  /\ DOMAIN step_calls' = {finder_ret'.name}
                         /\ k < Len(chain) =>
                                /\ error_string'.kind = "step"
                                /\ error_string'.index = k
                                /\ error_string'.step = chain[k + 1].name
              /\ (finder_ret'.op = "find_by_name" /\ finder_ret'.name \notin Listing) =>
                     DOMAIN step_calls' = {}]_vars

\* A find_by_name of plugin_c, which passes the finder's own step and
\* fails the extra step, has called both and names step 1, the lambda.
C37_Witness ==
    /\ finder_ret.op = "find_by_name"
    /\ finder_ret.name = "plugin_c"
    /\ pipeline_steps = <<directory_filter>>
    /\ finder_ret.extra = <<lambda_step>>
    /\ step_calls = MapPut(<<>>, "plugin_c", <<0, 1>>)
    /\ error_string.index = 1
    /\ error_string.step = "<lambda>"

====
